---- MODULE Spec2Model ----
(***************************************************************************)
(* A model of the browser agent: the command parser (parser.py), the       *)
(* /interact boundary (app.py), the dispatcher, the element resolution and *)
(* the handlers (browser.py) and the CAPTCHA detection and escalation      *)
(* policy (captcha_handler.py).                                            *)
(*                                                                         *)
(* Python strings are TLA+ strings; Len, SubSeq and \o act on them as on   *)
(* sequences of characters.  Python values that may be None or a number    *)
(* are tagged records (PyStr, PyNone, PyFloat).                            *)
(***************************************************************************)
EXTENDS Integers, Sequences, FiniteSets, TLC

VARIABLES
    \* parser.py and app.py
    command,        \* the text handed to parse_command / CommandRequest.command
    options,        \* CommandRequest.options
    pc,             \* "start", "parsed" (parse_command returned or raised), "responded"
    parsed,         \* the outcome of parse_command
    executed,       \* what interact passed to browser_controller.execute, if it got there
    response,       \* what interact answered
    \* browser.py: one call of BrowserController._submit
    sub_pc,         \* the await the call is suspended at, or "done"
    sub_i,          \* the index in submit_selectors of the selector being tried
    gestures,       \* the clicks and Enter presses delivered to the page, in order
    settled,        \* whether a network-idle wait completed since the last gesture
    sub_result,     \* "pending", "submitted" ({"submitted": True}) or "raised"
    sub_tried,      \* the strategies tried so far, in order: 1..7 the selectors, 8 the form, 9 the keyboard
    sub_found,      \* the strategies whose lookup found an element
    \* captcha_handler.py: one call of CaptchaHandler.solve_captcha
    cap_pc,         \* "start", "screenshot", "poll", "sleep" or "done"
    api_key,        \* whether self.api_key is set
    captcha_type,   \* the captcha_type argument
    manual_run,     \* whether _manual_intervention was entered
    shot_failed,    \* whether taking or saving the screenshot raised
    poll_i,         \* the loop variable i of the polling loop
    detect_calls,   \* how many times detect_captcha was called
    present_polls,  \* how many of these calls reported the CAPTCHA present
    last_detect,    \* what the last call of detect_captcha returned
    cap_result,     \* "pending", "True" or "False": what solve_captcha returned
    \* captcha_handler.py: one call of CaptchaHandler.detect_captcha
    det_pc,         \* "query", "content" or "done"
    det_page,       \* the page the call scans
    det_i,          \* the index in CAPTCHA_SELECTORS of the selector to query next
    det_queried,    \* the indices of the selectors queried so far, in order
    det_read,       \* whether page.content() was called
    det_raised,     \* whether a call on the page raised
    det_result,     \* what the call returned
    \* browser.py: one call of BrowserController._find_element
    fe_pc,          \* "strategy" or "done"
    identifier,     \* the identifier argument
    fe_timeout,     \* the timeout argument, in milliseconds
    fe_k,           \* the strategy to try next: 1 text, 2 placeholder, 3 label, 4..11 the common selectors
    fe_tried,       \* the strategies attempted so far, in order
    fe_first,       \* the first strategy whose own selector found an element, 0 when none has
    fe_swallowed,   \* how many strategies had a lookup raise, caught by their except
    fe_elapsed,     \* milliseconds spent in wait_for_selector so far
    fe_label,       \* where the label strategy ended once its label was found, "" before
    fe_result,      \* the handle returned or the error raised
    \* browser.py: one call of BrowserController.execute
    ex_pc,          \* "entry", "dispatch", "handler" or "done"
    ex_action,      \* the action argument
    ex_parameters,  \* the parameters argument
    initialized,    \* self.initialized
    resources,      \* which of playwright, browser, context, page the session holds
    init_calls,     \* how many times execute called initialize
    started,        \* the handler that started running, with self.initialized at that moment
    env,            \* how the page answered the handler's calls
    trace,          \* the typed errors raised inside the handler
    ex_result,      \* the result record returned or the error raised
    \* app.py: the server's tasks and the sessions they share
    controller,     \* the global browser_controller: 0 for None, else the index of its session
    sessions,       \* the BrowserController objects created so far, with their fields
    tasks,          \* the coroutines: what each runs and the await it is suspended at
    live,           \* the browsers launched and not closed
    acquisitions,   \* how many awaits of initialize have returned a resource
    phase,          \* "starting", "serving", "stopping", "stopped" or "failed"; "direct" for direct calls
    \* browser.py: the entry-point loop of one call of BrowserController._login
    lg_pc,          \* the await the loop is suspended at, or "form" once the loop is left
    lg_i,           \* the index in login_buttons of the text being tried
    lg_probed,      \* the indices of the texts looked up so far, in order
    lg_clicks,      \* the indices of the texts whose element was clicked, in order
    \* parser.py: successive calls of parse_command in one process
    heap,           \* the dicts the calls returned, by object, with their present contents
    calls           \* the calls so far: the command, the outcome and the dict returned

parserVars == <<command, options, pc, parsed, executed, response>>

submitVars ==
    <<sub_pc, sub_i, gestures, settled, sub_result, sub_tried, sub_found>>

captchaVars ==
    <<cap_pc, api_key, captcha_type, manual_run, shot_failed, poll_i,
      detect_calls, present_polls, last_detect, cap_result>>

detectVars ==
    <<det_pc, det_page, det_i, det_queried, det_read, det_raised, det_result>>

findVars ==
    <<fe_pc, identifier, fe_timeout, fe_k, fe_tried, fe_first, fe_swallowed,
      fe_elapsed, fe_label, fe_result>>

executeVars ==
    <<ex_pc, ex_action, ex_parameters, initialized, resources, init_calls,
      started, env, trace, ex_result>>

serverVars == <<controller, sessions, tasks, live, acquisitions, phase>>

loginVars == <<lg_pc, lg_i, lg_probed, lg_clicks>>

reparseVars == <<heap, calls>>

vars ==
    <<parserVars, submitVars, captchaVars, detectVars, findVars, executeVars,
      serverVars, loginVars, reparseVars>>

----------------------------------------------------------------------------
(* Characters and strings                                                  *)

CharAt(s, i) == SubSeq(s, i, i)

CharsOf(s) == {CharAt(s, i) : i \in 1..Len(s)}

LowerLetters == "abcdefghijklmnopqrstuvwxyz"

UpperLetters == "ABCDEFGHIJKLMNOPQRSTUVWXYZ"

Digits == "0123456789"

Whitespace == {" ", "\t", "\n", "\r", "\f"}

\* the lower-case letter of each upper-case letter, and the converse
ToLower ==
    [c \in CharsOf(UpperLetters) |->
        CharAt(LowerLetters, CHOOSE i \in 1..Len(UpperLetters) : CharAt(UpperLetters, i) = c)]

ToUpper ==
    [c \in CharsOf(LowerLetters) |->
        CharAt(UpperLetters, CHOOSE i \in 1..Len(LowerLetters) : CharAt(LowerLetters, i) = c)]

\* str.lower() on one character
LowerChar(c) == IF c \in DOMAIN ToLower THEN ToLower[c] ELSE c

UpperChar(c) == IF c \in DOMAIN ToUpper THEN ToUpper[c] ELSE c

RECURSIVE lower(_)
lower(s) == IF s = "" THEN "" ELSE LowerChar(Head(s)) \o lower(Tail(s))

RECURSIVE lstrip(_)
lstrip(s) == IF s # "" /\ Head(s) \in Whitespace THEN lstrip(Tail(s)) ELSE s

RECURSIVE rstrip(_)
rstrip(s) ==
    IF s # "" /\ CharAt(s, Len(s)) \in Whitespace
    THEN rstrip(SubSeq(s, 1, Len(s) - 1))
    ELSE s

strip(s) == rstrip(lstrip(s))

startswith(s, prefix) ==
    Len(prefix) <= Len(s) /\ SubSeq(s, 1, Len(prefix)) = prefix

\* Python values
PyStr(s) == [py |-> "str", v |-> s]

PyNone == [py |-> "None"]

PyInt(n) == [py |-> "int", v |-> n]

EmptyDict == [k \in {} |-> PyNone]

\* an update in which the keys already in a keep their value
update_keeping(a, b) ==
    [k \in DOMAIN a \cup DOMAIN b |-> IF k \in DOMAIN a THEN a[k] ELSE b[k]]

\* dict.update(): the keys of b overwrite those of a
update(a, b) ==
    [k \in DOMAIN a \cup DOMAIN b |-> IF k \in DOMAIN b THEN b[k] ELSE a[k]]

----------------------------------------------------------------------------
(* Regular expressions: the abstract syntax of the patterns of             *)
(* COMMAND_PATTERNS and a backtracking matcher with the priorities of      *)
(* Python's re (leftmost alternative first, greedy repetition).            *)

Lit(s) == [t |-> "lit", s |-> s]

Cls(chars) == [t |-> "cls", c |-> chars]

NotCls(chars) == [t |-> "ncls", c |-> chars]

Cat(rs) == [t |-> "cat", rs |-> rs]

Alt(rs) == [t |-> "alt", rs |-> rs]

Opt(r) == [t |-> "opt", r |-> r]

\* A greedy repetition of a character class: cls+ is Rep(cls, 1), cls* is
\* Rep(cls, 0), cls{2,} is Rep(cls, 2).  Every repetition of the patterns of
\* COMMAND_PATTERNS is of this form.
Rep(cls, min) == [t |-> "rep", r |-> cls, min |-> min]

Star(cls) == Rep(cls, 0)

Plus(cls) == Rep(cls, 1)

TwoOrMore(cls) == Rep(cls, 2)

Grp(n, r) == [t |-> "grp", n |-> n, r |-> r]

GrpEnd(n, from) == [t |-> "end", n |-> n, from |-> from]

NoMatch == [ok |-> FALSE]

NoGroups == <<PyNone, PyNone, PyNone>>

\* re.IGNORECASE: a character matches a class if either of its cases is in it
CharInClass(ch, chars) ==
    ch \in chars \/ LowerChar(ch) \in chars \/ UpperChar(ch) \in chars

\* whether the character class expression cls (a Cls or a NotCls) accepts ch
Accepts(cls, ch) ==
    IF cls.t = "cls" THEN CharInClass(ch, cls.c) ELSE ~CharInClass(ch, cls.c)

\* the length of the longest run of characters of s from pos that cls accepts
RunLength(cls, s, pos) ==
    LET stop == {i \in pos..Len(s) : ~Accepts(cls, CharAt(s, i))}
    IN  IF stop = {} THEN Len(s) - pos + 1
        ELSE (CHOOSE i \in stop : \A j \in stop : i <= j) - pos

\* The element of a singleton set.  Value({F(x) : x \in {e}}) is F(e) with e
\* evaluated once, before F.
Value(S) == CHOOSE x \in S : TRUE

\* config is the matcher's configuration c: c.k the sequence of expressions still to
\* be matched, from position c.pos of c.s, with the groups c.g captured so
\* far.  The result is the first match in backtracking order, or NoMatch.
RECURSIVE MatchFrom(_)
MatchFrom(config) ==
    Value({
      IF Len(c.k) = 0 THEN [ok |-> TRUE, end |-> c.pos - 1, groups |-> c.g]
      ELSE
      LET r    == Head(c.k)
          rest == Tail(c.k)
      IN  CASE r.t = "lit" ->
               IF /\ c.pos + Len(r.s) - 1 <= Len(c.s)
                  /\ lower(SubSeq(c.s, c.pos, c.pos + Len(r.s) - 1)) = lower(r.s)
               THEN MatchFrom([c EXCEPT !.k = rest, !.pos = c.pos + Len(r.s)])
               ELSE NoMatch
          [] r.t \in {"cls", "ncls"} ->
               IF c.pos <= Len(c.s) /\ Accepts(r, CharAt(c.s, c.pos))
               THEN MatchFrom([c EXCEPT !.k = rest, !.pos = c.pos + 1])
               ELSE NoMatch
          [] r.t = "cat" -> MatchFrom([c EXCEPT !.k = r.rs \o rest])
          [] r.t = "alt" ->
               \* the alternatives in order, the first that lets the rest match
               IF Len(r.rs) = 0 THEN NoMatch
               ELSE Value({
                      IF m.ok THEN m
                      ELSE MatchFrom([c EXCEPT !.k = <<Alt(Tail(r.rs))>> \o rest])
                      : m \in {MatchFrom([c EXCEPT !.k = <<Head(r.rs)>> \o rest])} })
          [] r.t = "opt" ->
               \* greedy: with the optional part first, then without it
               Value({
                 IF m.ok THEN m ELSE MatchFrom([c EXCEPT !.k = rest])
                 : m \in {MatchFrom([c EXCEPT !.k = <<r.r>> \o rest])} })
          [] r.t = "rep" ->
               \* greedy: the longest run after which the rest matches
               Value({
                 IF good = {} THEN NoMatch
                 ELSE MatchFrom([c EXCEPT !.k = rest,
                                          !.pos = c.pos + (CHOOSE j \in good : \A j2 \in good : j2 <= j)])
                 : good \in {{j \in r.min..RunLength(r.r, c.s, c.pos) :
                                MatchFrom([c EXCEPT !.k = rest, !.pos = c.pos + j]).ok}} })
          [] r.t = "grp" ->
               MatchFrom([c EXCEPT !.k = <<r.r, GrpEnd(r.n, c.pos)>> \o rest])
          [] r.t = "end" ->
               MatchFrom([c EXCEPT !.k = rest,
                                   !.g[r.n] = PyStr(SubSeq(c.s, r.from, c.pos - 1))])
      : c \in {config} })

\* re.match(pattern, s, re.IGNORECASE): anchored at the start of s only
re_match(pattern, s) == MatchFrom([k |-> <<pattern>>, s |-> s, pos |-> 1, g |-> NoGroups])

----------------------------------------------------------------------------
(* parser.py: COMMAND_PATTERNS and parse_command                           *)

AlnumSpace == CharsOf(LowerLetters) \cup CharsOf(UpperLetters) \cup CharsOf(Digits) \cup {" "}

DomainChars == CharsOf(LowerLetters) \cup CharsOf(UpperLetters) \cup CharsOf(Digits) \cup {".", "-"}

Letters == CharsOf(LowerLetters) \cup CharsOf(UpperLetters)

DigitsOrDot == CharsOf(Digits) \cup {"."}

Quote == Cls({"'", "\""})

NotQuotes == Plus(NotCls({"'", "\""}))

\* [a-zA-Z0-9.-]+\.[a-zA-Z]{2,}
DomainName == Cat(<<Plus(Cls(DomainChars)), Lit("."), TwoOrMore(Cls(Letters))>>)

\* (?:type|enter|input|fill in)
TypeVerb == Alt(<<Lit("type"), Lit("enter"), Lit("input"), Lit("fill in")>>)

\* (?:in(?:to)?|on) (?:the )?([a-zA-Z0-9 ]+)(?: field| input| box)?
TypeTarget ==
    Cat(<<Alt(<<Cat(<<Lit("in"), Opt(Lit("to"))>>), Lit("on")>>), Lit(" "),
          Opt(Lit("the ")), Grp(2, Plus(Cls(AlnumSpace))),
          Opt(Alt(<<Lit(" field"), Lit(" input"), Lit(" box")>>))>>)

NavigatePattern ==
    Cat(<<Alt(<<Lit("go to"), Lit("navigate to"), Lit("open")>>), Lit(" "),
          Opt(Lit("the ")),
          Opt(Alt(<<Lit("website "), Lit("site "), Lit("page ")>>)),
          Opt(Lit("at ")),
          Opt(Cat(<<Lit("http"), Opt(Lit("s")), Lit("://")>>)),
          Grp(1, Cat(<<DomainName,
                       Opt(Cat(<<Lit("/"), Star(NotCls(Whitespace))>>))>>))>>)

ClickQuotedPattern ==
    Cat(<<Lit("click"), Opt(Lit(" on")), Lit(" "), Opt(Lit("the ")),
          Alt(<<Lit("button"), Lit("link"), Lit("element")>>),
          Opt(Cat(<<Lit(" "),
                    Alt(<<Lit("with"), Lit("that says"), Lit("containing")>>)>>)),
          Lit(" "), Quote, Grp(1, NotQuotes), Quote>>)

ClickBarePattern ==
    Cat(<<Lit("click"), Opt(Lit(" on")), Lit(" "), Opt(Lit("the ")),
          Grp(1, Plus(Cls(AlnumSpace))), Lit(" "),
          Alt(<<Lit("button"), Lit("link"), Lit("element")>>)>>)

TypeQuotedPattern ==
    Cat(<<TypeVerb, Lit(" "), Quote, Grp(1, NotQuotes), Quote, Lit(" "),
          TypeTarget>>)

TypeBarePattern ==
    Cat(<<TypeVerb, Lit(" "), Grp(1, Plus(Cls(AlnumSpace))), Lit(" "),
          TypeTarget>>)

SubmitPattern ==
    Cat(<<Alt(<<Lit("submit"), Lit("send")>>), Opt(Lit(" the")),
          Opt(Lit(" form"))>>)

WaitSecondsPattern ==
    Cat(<<Lit("wait "), Opt(Lit("for ")), Grp(1, Plus(Cls(DigitsOrDot))),
          Lit(" second"), Opt(Lit("s"))>>)

WaitForElementPattern ==
    Cat(<<Lit("wait for"), Opt(Lit(" the")), Lit(" "),
          Grp(1, Plus(Cls(AlnumSpace))),
          Opt(Alt(<<Lit(" to appear"), Lit(" to load")>>))>>)

ScreenshotPattern ==
    Cat(<<Opt(Alt(<<Lit("take a "), Lit("capture "), Lit("grab a ")>>)),
          Lit("screenshot")>>)

LoginPattern ==
    Cat(<<Lit("log"), Opt(Lit("in")), Alt(<<Lit(" to"), Lit(" into")>>),
          Lit(" "), Grp(1, DomainName),
          Opt(Cat(<<Lit(" with username "), Quote, Grp(2, NotQuotes), Quote,
                    Lit(" and password "), Quote, Grp(3, NotQuotes), Quote>>))>>)

SearchPattern ==
    Cat(<<Lit("search "), Opt(Lit("for ")), Quote, Grp(1, NotQuotes), Quote,
          Lit(" "), Alt(<<Lit("on"), Lit("in")>>), Lit(" "),
          Grp(2, DomainName)>>)

\* The ordered rule list: pattern, action and the number of groups of the
\* pattern; rule i's extractor is param_extractor(i, _).
COMMAND_PATTERNS ==
    << [pattern |-> NavigatePattern,       action |-> "navigate",         groups |-> 1],
       [pattern |-> ClickQuotedPattern,    action |-> "click",            groups |-> 1],
       [pattern |-> ClickBarePattern,      action |-> "click",            groups |-> 1],
       [pattern |-> TypeQuotedPattern,     action |-> "type",             groups |-> 2],
       [pattern |-> TypeBarePattern,       action |-> "type",             groups |-> 2],
       [pattern |-> SubmitPattern,         action |-> "submit",           groups |-> 0],
       [pattern |-> WaitSecondsPattern,    action |-> "wait",             groups |-> 1],
       [pattern |-> WaitForElementPattern, action |-> "wait_for_element", groups |-> 1],
       [pattern |-> ScreenshotPattern,     action |-> "screenshot",       groups |-> 0],
       [pattern |-> LoginPattern,          action |-> "login",            groups |-> 3],
       [pattern |-> SearchPattern,         action |-> "search",           groups |-> 2] >>

NumRules == Len(COMMAND_PATTERNS)

RECURSIVE StripLeadingZeros(_)
StripLeadingZeros(s) ==
    IF s # "" /\ Head(s) = "0" THEN StripLeadingZeros(Tail(s)) ELSE s

RECURSIVE StripTrailingZeros(_)
StripTrailingZeros(s) ==
    IF s # "" /\ CharAt(s, Len(s)) = "0"
    THEN StripTrailingZeros(SubSeq(s, 1, Len(s) - 1))
    ELSE s

\* float(s) for a string of digits and dots, as ([\d.]+) captures it: the
\* number (integer part without leading zeros, fraction without trailing
\* zeros), or a ValueError when s is no decimal numeral.
float(s) ==
    LET dots == {i \in 1..Len(s) : CharAt(s, i) = "."}
        dot  == IF dots = {} THEN Len(s) + 1 ELSE CHOOSE i \in dots : TRUE
    IN  IF Cardinality(dots) > 1 \/ Len(s) - Cardinality(dots) = 0
        THEN [raised |-> "ValueError"]
        ELSE [raised |-> "",
              v |-> [py   |-> "float",
                     int  |-> StripLeadingZeros(SubSeq(s, 1, dot - 1)),
                     frac |-> StripTrailingZeros(SubSeq(s, dot + 1, Len(s)))]]

\* m.group(n) if len(m.groups()) > n - 1 and m.group(n) else None
GroupOrNone(i, m, n) ==
    IF COMMAND_PATTERNS[i].groups > n - 1 /\ m.groups[n] # PyNone /\ m.groups[n].v # ""
    THEN m.groups[n]
    ELSE PyNone

\* The lambda paired with rule i, applied to the match m
param_extractor(i, m) ==
    LET g == m.groups
    IN  CASE i = 1 ->
               [raised |-> "",
                params |-> [url |-> IF ~(startswith(g[1].v, "http://") \/ startswith(g[1].v, "https://"))
                                    THEN PyStr("https://" \o g[1].v)
                                    ELSE g[1]]]
          [] i \in {2, 3} -> [raised |-> "", params |-> [text |-> g[1]]]
          [] i \in {4, 5} -> [raised |-> "", params |-> [text |-> g[1], field |-> g[2]]]
          [] i \in {6, 9} -> [raised |-> "", params |-> EmptyDict]
          [] i = 7 ->
               LET f == float(g[1].v)
               IN  IF f.raised # "" THEN [raised |-> f.raised, params |-> EmptyDict]
                   ELSE [raised |-> "", params |-> [seconds |-> f.v]]
          [] i = 8 -> [raised |-> "", params |-> [element |-> g[1]]]
          [] i = 10 ->
               [raised |-> "",
                params |-> [website  |-> g[1],
                            username |-> GroupOrNone(i, m, 2),
                            password |-> GroupOrNone(i, m, 3)]]
          [] i = 11 -> [raised |-> "", params |-> [query |-> g[1], website |-> g[2]]]

\* The outcome of parse_command: what it returned or raised, with the rule
\* that decided, the last character its match consumed, and the rules whose
\* pattern was tried and whose extractor was invoked, in order.
Outcome(raised, action, params, rule, end, tried, extracted) ==
    [raised |-> raised, action |-> action, params |-> params, rule |-> rule,
     end |-> end, tried |-> tried, extracted |-> extracted]

\* The loop without its return at the first match: the last matching rule
\* decides.
RECURSIVE match_rules_last(_, _, _)
match_rules_last(cmd, i, tried) ==
    IF i > NumRules
    THEN Outcome("ValueError", "", EmptyDict, 0, 0, tried, <<>>)
    ELSE Value({
           IF later.rule # 0 \/ ~m.ok THEN later
           ELSE Value({
                  Outcome(e.raised, IF e.raised = "" THEN COMMAND_PATTERNS[i].action ELSE "",
                          e.params, i, m.end, Append(tried, i), <<i>>)
                  : e \in {param_extractor(i, m)} })
           : m \in {re_match(COMMAND_PATTERNS[i].pattern, cmd)},
             later \in {match_rules_last(cmd, i + 1, Append(tried, i))} })

\* for pattern, action, param_extractor in COMMAND_PATTERNS: ... from rule i on
RECURSIVE match_rules(_, _, _)
match_rules(cmd, i, tried) ==
    IF i > NumRules
    THEN Outcome("ValueError", "", EmptyDict, 0, 0, tried, <<>>)
    ELSE Value({
           IF m.ok
           THEN Value({
                  Outcome(e.raised, IF e.raised = "" THEN COMMAND_PATTERNS[i].action ELSE "",
                          e.params, i, m.end, Append(tried, i), <<i>>)
                  : e \in {param_extractor(i, m)} })
           ELSE match_rules(cmd, i + 1, Append(tried, i))
           : m \in {re_match(COMMAND_PATTERNS[i].pattern, cmd)} })

normalize(cmd) == lower(strip(cmd))

parse_command(cmd) == Value({match_rules(c, 1, <<>>) : c \in {normalize(cmd)}})

----------------------------------------------------------------------------
(* error_handler.py: the error taxonomy and handle_error                   *)

\* the subclasses of BrowserAutomationError, each with recovery_suggestions
TaxonomySubclasses ==
    {"ElementNotFoundError", "NavigationError", "TimeoutError",
     "AuthenticationError", "InvalidCommandError", "BrowserInitializationError"}

IsBrowserAutomationError(cls) ==
    cls = "BrowserAutomationError" \/ cls \in TaxonomySubclasses

\* an exception object: its class and its message
Exc(cls, message) == [cls |-> cls, message |-> message]

handle_error(e) ==
    IF IsBrowserAutomationError(e.cls)
    THEN IF e.cls \in TaxonomySubclasses
         THEN [error_type |-> e.cls, message |-> e.message, details |-> EmptyDict,
               recovery_suggestions |-> TRUE]
         ELSE [error_type |-> e.cls, message |-> e.message, details |-> EmptyDict]
    ELSE [error_type |-> "UnexpectedError", message |-> e.message,
          details |-> [traceback |-> TRUE]]

----------------------------------------------------------------------------
(* app.py: the /interact boundary                                          *)

NotParsed == [raised |-> "pending"]

NotExecuted == [called |-> FALSE]

NoResponse == [kind |-> "none"]

HTTPException(status, detail) ==
    [kind |-> "HTTPException", status_code |-> status, detail |-> detail]

CommandResponse(success, message, data) ==
    [kind |-> "CommandResponse", success |-> success, message |-> message,
     data |-> data]

\* what can leave BrowserController.execute: a result record, or one of the
\* errors its handlers raise
ExecuteOutcomes ==
    {"result", "BrowserAutomationError", "ElementNotFoundError",
     "NavigationError", "TimeoutError"}

\* if request.options: (None and the empty dict are falsy)
Truthy(opts) == opts # PyNone /\ DOMAIN opts # {}

----------------------------------------------------------------------------
(* The inputs                                                              *)

\* how many trailing phrases are appended to a base command
MaxTrail == 1

BaseCommands ==
    { \* the test_commands of parser.py
      "Go to github.com",
      "Navigate to https://www.google.com",
      "Click on the login button",
      "Click on \"Sign In\"",
      "Type \"hello world\" into the search field",
      "Enter my_username into the username field",
      "Submit the form",
      "Wait 5 seconds",
      "Wait for results to load",
      "Take a screenshot",
      "Login to github.com with username \"myuser\" and password \"mypass\"",
      "Search for \"python automation\" on google.com",
      \* variations
      "type \"hello world\" into the search field",
      "type hello into the search box",
      "fill in 'x' on the email input",
      "navigate to http://example.com",
      "open the website at example.co.uk/path",
      "open x.y",
      "click the button \"Sign In\"",
      "click on the link that says 'Home'",
      "click the big red button",
      "click button",
      "  Take a screenshot  ",
      "screenshot",
      "screenshot xyz",
      "login to github.com",
      "log into github.com with username 'a' and password 'b'",
      "search 'cats' in example.org",
      "search cats on example.org",
      "Search for \"Python Automation\" on google.com",
      "Open GitHub.com",
      "navigate to www.google.com",
      "Go to example.xn--p1ai",
      "send",
      "submit",
      "wait for 5 seconds",
      "wait 1.2.3 seconds",
      "wait for 0.50 seconds",
      "wait for the page to appear",
      "hello",
      "" }

TrailPhrases == {" and then delete everything", " to load the link"}

RECURSIVE Trails(_)
Trails(n) ==
    IF n = 0 THEN {""}
    ELSE Trails(n - 1) \cup {t \o ph : t \in Trails(n - 1), ph \in TrailPhrases}

Commands == {b \o t : b \in BaseCommands, t \in Trails(MaxTrail)}

OptionChoices ==
    { PyNone,
      EmptyDict,
      [text |-> PyStr("Submit")],
      [timeout |-> PyInt(1000)],
      [field |-> PyStr("email"), text |-> PyStr("override"), timeout |-> PyInt(1000)] }

\* parse_command tabulated over the inputs: Parse[c] = parse_command(c)
Parse == [c \in Commands |-> parse_command(c)]

\* the body of interact from the parse on, with `out` what execute does
interact(cmd, opts, out) ==
    LET p == Parse[cmd]
    IN  IF p.raised # ""
        THEN \* a ValueError is no BrowserAutomationError: except Exception
             [parsed   |-> p,
              executed |-> NotExecuted,
              response |-> HTTPException(500, "Unexpected error: Could not understand command")]
        ELSE LET parameters == IF Truthy(opts) THEN update(p.params, opts) ELSE p.params
                 call       == [called |-> TRUE, action |-> p.action,
                                parameters |-> parameters]
             IN  IF out = "result"
                 THEN [parsed   |-> p,
                       executed |-> call,
                       response |-> CommandResponse(TRUE, "Successfully executed: " \o cmd,
                                                    [result |-> p.action])]
                 ELSE [parsed   |-> p,
                       executed |-> call,
                       response |-> CommandResponse(FALSE, "Failed to execute " \o p.action,
                                        handle_error(Exc(out, "Failed to execute " \o p.action)))]

----------------------------------------------------------------------------
(* The parser and the boundary as a state machine                          *)

ParserInit ==
    /\ command \in Commands
    /\ options \in OptionChoices
    /\ pc = "start"
    /\ parsed = NotParsed
    /\ executed = NotExecuted
    /\ response = NoResponse

\* the parser and the boundary are not in use
ParserIdle ==
    /\ command = ""
    /\ options = PyNone
    /\ pc = "idle"
    /\ parsed = NotParsed
    /\ executed = NotExecuted
    /\ response = NoResponse

\* parse_command(cmd) called on its own, as by the test loop of parser.py
ParseCommand ==
    /\ pc = "start"
    /\ parsed' = Parse[command]
    /\ pc' = "parsed"
    /\ UNCHANGED <<command, options, executed, response>>
    /\ UNCHANGED <<submitVars, captchaVars, detectVars, findVars, executeVars, serverVars,
                   loginVars, reparseVars>>

\* one /interact request, from the parse to the response
Interact ==
    /\ pc = "start"
    /\ \E out \in ExecuteOutcomes :
          LET r == interact(command, options, out)
          IN  /\ parsed' = r.parsed
              /\ executed' = r.executed
              /\ response' = r.response
    /\ pc' = "responded"
    /\ UNCHANGED <<command, options>>
    /\ UNCHANGED <<submitVars, captchaVars, detectVars, findVars, executeVars, serverVars,
                   loginVars, reparseVars>>

Next == ParseCommand \/ Interact

----------------------------------------------------------------------------
(* browser.py: BrowserController._submit, one step per await               *)

submit_selectors ==
    << "input[type='submit']",
       "button[type='submit']",
       "button:has-text('Submit')",
       "button:has-text('Login')",
       "button:has-text('Sign in')",
       "button:has-text('Search')",
       "button:has-text('Send')" >>

\* the strategies after the selectors: Enter on a form, Enter on the keyboard
FormStrategy == Len(submit_selectors) + 1

KeyboardStrategy == Len(submit_selectors) + 2

Click(selector) == [kind |-> "click", target |-> selector]

Press(target) == [kind |-> "press", target |-> target]

\* continue: the next selector of the for loop, or the code that follows it
continue_loop(i) ==
    IF i < Len(submit_selectors)
    THEN [pc |-> "probe", i |-> i + 1]
    ELSE [pc |-> "query_form", i |-> i]

SubmitInit ==
    /\ sub_pc = "probe"
    /\ sub_i = 1
    /\ gestures = <<>>
    /\ settled = FALSE
    /\ sub_result = "pending"
    /\ sub_tried = <<>>
    /\ sub_found = {}

\* _submit is not running
SubmitIdle ==
    /\ sub_pc = "idle"
    /\ sub_i = 1
    /\ gestures = <<>>
    /\ settled = FALSE
    /\ sub_result = "pending"
    /\ sub_tried = <<>>
    /\ sub_found = {}

\* return {"submitted": True}
SubmitReturns ==
    /\ sub_pc' = "done"
    /\ sub_result' = "submitted"

\* the outer except: raise BrowserAutomationError("Failed to submit form: ...")
SubmitRaises ==
    /\ sub_pc' = "done"
    /\ sub_result' = "raised"

\* submit_button = await self.page.wait_for_selector(selector, timeout=1000):
\* an element, None, or a timeout that the bare except turns into continue
SubmitProbe ==
    /\ sub_pc = "probe"
    /\ \E found \in {"element", "None", "raise"} :
          IF found = "element"
          THEN /\ sub_pc' = "click" /\ sub_i' = sub_i
               /\ sub_found' = sub_found \cup {sub_i}
          ELSE /\ sub_pc' = continue_loop(sub_i).pc /\ sub_i' = continue_loop(sub_i).i
               /\ UNCHANGED sub_found
    /\ sub_tried' = Append(sub_tried, sub_i)
    /\ UNCHANGED <<gestures, settled, sub_result>>
    /\ UNCHANGED <<parserVars, captchaVars, detectVars, findVars, executeVars, serverVars,
                   loginVars, reparseVars>>

\* await submit_button.click()
SubmitClick ==
    /\ sub_pc = "click"
    /\ \E ok \in BOOLEAN :
          IF ok
          THEN /\ gestures' = Append(gestures, Click(submit_selectors[sub_i]))
               /\ settled' = FALSE
               /\ sub_pc' = "settle_click"
               /\ sub_i' = sub_i
          ELSE /\ sub_pc' = continue_loop(sub_i).pc
               /\ sub_i' = continue_loop(sub_i).i
               /\ UNCHANGED <<gestures, settled>>
    /\ UNCHANGED <<sub_result, sub_tried, sub_found>>
    /\ UNCHANGED <<parserVars, captchaVars, detectVars, findVars, executeVars, serverVars,
                   loginVars, reparseVars>>

\* await self.page.wait_for_load_state("networkidle") after the click; a
\* failure is caught by the bare except of the loop body
SubmitSettleClick ==
    /\ sub_pc = "settle_click"
    /\ \E ok \in BOOLEAN :
          IF ok
          THEN settled' = TRUE /\ SubmitReturns /\ sub_i' = sub_i
          ELSE /\ sub_pc' = continue_loop(sub_i).pc
               /\ sub_i' = continue_loop(sub_i).i
               /\ UNCHANGED <<settled, sub_result>>
    /\ UNCHANGED <<gestures, sub_tried, sub_found>>
    /\ UNCHANGED <<parserVars, captchaVars, detectVars, findVars, executeVars, serverVars,
                   loginVars, reparseVars>>

\* form = await self.page.query_selector("form")
SubmitQueryForm ==
    /\ sub_pc = "query_form"
    /\ \E found \in {"element", "None", "raise"} :
          /\ CASE found = "element" -> sub_pc' = "press_form" /\ UNCHANGED sub_result
               [] found = "None"    -> sub_pc' = "press_key" /\ UNCHANGED sub_result
               [] found = "raise"   -> SubmitRaises
          /\ sub_found' = IF found = "element"
                          THEN sub_found \cup {FormStrategy} ELSE sub_found
    /\ sub_tried' = Append(sub_tried, FormStrategy)
    /\ UNCHANGED <<sub_i, gestures, settled>>
    /\ UNCHANGED <<parserVars, captchaVars, detectVars, findVars, executeVars, serverVars,
                   loginVars, reparseVars>>

\* await form.press("Enter")
SubmitPressForm ==
    /\ sub_pc = "press_form"
    /\ \E ok \in BOOLEAN :
          IF ok
          THEN /\ gestures' = Append(gestures, Press("form"))
               /\ settled' = FALSE
               /\ sub_pc' = "settle_form"
               /\ UNCHANGED sub_result
          ELSE SubmitRaises /\ UNCHANGED <<gestures, settled>>
    /\ UNCHANGED <<sub_i, sub_tried, sub_found>>
    /\ UNCHANGED <<parserVars, captchaVars, detectVars, findVars, executeVars, serverVars,
                   loginVars, reparseVars>>

\* await self.page.wait_for_load_state("networkidle") after the form's Enter
SubmitSettleForm ==
    /\ sub_pc = "settle_form"
    /\ \E ok \in BOOLEAN :
          IF ok THEN settled' = TRUE /\ SubmitReturns
          ELSE SubmitRaises /\ UNCHANGED settled
    /\ UNCHANGED <<sub_i, gestures, sub_tried, sub_found>>
    /\ UNCHANGED <<parserVars, captchaVars, detectVars, findVars, executeVars, serverVars,
                   loginVars, reparseVars>>

\* await self.page.keyboard.press("Enter")
SubmitPressKey ==
    /\ sub_pc = "press_key"
    /\ \E ok \in BOOLEAN :
          IF ok
          THEN /\ gestures' = Append(gestures, Press("keyboard"))
               /\ settled' = FALSE
               /\ sub_pc' = "settle_key"
               /\ UNCHANGED sub_result
          ELSE SubmitRaises /\ UNCHANGED <<gestures, settled>>
    /\ sub_tried' = Append(sub_tried, KeyboardStrategy)
    /\ UNCHANGED <<sub_i, sub_found>>
    /\ UNCHANGED <<parserVars, captchaVars, detectVars, findVars, executeVars, serverVars,
                   loginVars, reparseVars>>

\* await self.page.wait_for_load_state("networkidle") after the keyboard's Enter
SubmitSettleKey ==
    /\ sub_pc = "settle_key"
    /\ \E ok \in BOOLEAN :
          IF ok THEN settled' = TRUE /\ SubmitReturns
          ELSE SubmitRaises /\ UNCHANGED settled
    /\ UNCHANGED <<sub_i, gestures, sub_tried, sub_found>>
    /\ UNCHANGED <<parserVars, captchaVars, detectVars, findVars, executeVars, serverVars,
                   loginVars, reparseVars>>

SubmitNext ==
    \/ SubmitProbe
    \/ SubmitClick
    \/ SubmitSettleClick
    \/ SubmitQueryForm
    \/ SubmitPressForm
    \/ SubmitSettleForm
    \/ SubmitPressKey
    \/ SubmitSettleKey

----------------------------------------------------------------------------
(* captcha_handler.py: detect_captcha                                      *)

CAPTCHA_SELECTORS ==
    << "iframe[src*='recaptcha']",
       "iframe[title*='recaptcha']",
       ".g-recaptcha",
       "div[data-sitekey]",
       "iframe[src*='hcaptcha']",
       ".h-captcha",
       "img[alt*='captcha' i]",
       "input[name*='captcha' i]",
       "div[class*='captcha' i]",
       "label:has-text('I am not a robot')",
       "div:has-text('Verify you are human')" >>

CAPTCHA_TEXT_PATTERNS ==
    << "captcha",
       "i am not a robot",
       "verify you are human",
       "security check",
       "prove you're human",
       "human verification" >>

\* sub in s
contains(sub, s) ==
    \E i \in 1..(Len(s) - Len(sub) + 1) : SubSeq(s, i, i + Len(sub) - 1) = sub

\* A page: the selectors of CAPTCHA_SELECTORS (by index) that query_selector
\* finds an element for, the text page.content() returns, and whether the
\* page's calls raise (it is navigating, or closed).
Page(elements, content, raises) ==
    [elements |-> elements, content |-> content, raises |-> raises]

Pages ==
    { Page({}, "<html><body>Welcome back</body></html>", FALSE),
      Page({1, 3}, "<iframe src='https://www.google.com/recaptcha/api2/anchor'>", FALSE),
      Page({4}, "<div data-sitekey='6Lc'></div>", FALSE),
      Page({5, 6}, "<div class='h-captcha'></div>", FALSE),
      Page({6}, "<div class='h-captcha' data-sitekey-id='10000000'></div>", FALSE),
      Page({8, 9}, "<input name='Captcha_code'>", FALSE),
      Page({10}, "<label>I am not a robot</label>", FALSE),
      Page({}, "<p>Please complete the Security Check</p>", FALSE),
      Page({11}, "<div>Verify you are human</div>", FALSE),
      Page({}, "<h1>Human Verification</h1>", FALSE),
      Page({}, "<p>Prove you're human to continue</p>", FALSE),
      Page({}, "", TRUE) }

\* the captcha_type detect_captcha derives from the selector that matched
classify(selector) ==
    Value({
      IF contains("recaptcha", selector_text) THEN "recaptcha"
      ELSE IF contains("hcaptcha", selector_text) THEN "hcaptcha"
      ELSE IF contains("captcha", selector_text) THEN "text_captcha"
      ELSE "unknown"
      : selector_text \in {lower(selector)} })

\* what detect_captcha returns, (is_captcha_present, captcha_type,
\* captcha_element), with the return statement that produced it
Detection(present, type, element, via) ==
    [present |-> present, captcha_type |-> type, element |-> element, via |-> via]

detect_captcha(page) ==
    IF page.raises
    THEN \* except Exception: return False, None, None
         Detection(FALSE, PyNone, PyNone, "exception")
    ELSE LET hits == {i \in 1..Len(CAPTCHA_SELECTORS) : i \in page.elements}
         IN  IF hits # {}
             THEN LET first == CHOOSE i \in hits : \A j \in hits : i <= j
                  IN  Detection(TRUE, PyStr(classify(CAPTCHA_SELECTORS[first])),
                                PyStr(CAPTCHA_SELECTORS[first]), "selector")
             ELSE Value({
                    IF \E n \in 1..Len(CAPTCHA_TEXT_PATTERNS) :
                          contains(CAPTCHA_TEXT_PATTERNS[n], page_text_lower)
                    THEN Detection(TRUE, PyStr("unknown"), PyNone, "text")
                    ELSE Detection(FALSE, PyNone, PyNone, "none")
                    : page_text_lower \in {lower(page.content)} })

\* detect_captcha tabulated over the pages
Detect == [p \in Pages |-> detect_captcha(p)]

----------------------------------------------------------------------------
(* captcha_handler.py: solve_captcha and _manual_intervention              *)

wait_time == 30

CaptchaTypes == {"recaptcha", "hcaptcha", "text_captcha", "unknown"}

\* _solve_recaptcha: False without a key, and False with one (placeholder)
solve_recaptcha(key) == IF ~key THEN FALSE ELSE FALSE

\* _solve_hcaptcha
solve_hcaptcha == FALSE

\* _solve_text_captcha
solve_text_captcha == FALSE

\* The first part of solve_captcha: whether it returns from the branch on
\* captcha_type, and what; otherwise it goes on to _manual_intervention.
solve_dispatch(key, type) ==
    IF key
    THEN CASE type = "recaptcha"    -> [returns |-> TRUE, value |-> solve_recaptcha(key)]
           [] type = "hcaptcha"     -> [returns |-> TRUE, value |-> solve_hcaptcha]
           [] type = "text_captcha" -> [returns |-> TRUE, value |-> solve_text_captcha]
           [] OTHER                 -> [returns |-> FALSE]
    ELSE [returns |-> FALSE]

PyBool(b) == IF b THEN "True" ELSE "False"

\* a loop body that never returns early
after_detect_no_return(present) == [pc |-> "sleep", result |-> "pending"]

\* the body of the polling loop after detect_captcha returned: return True
\* when the CAPTCHA is not present, else go on to asyncio.sleep(1)
after_detect(present) ==
    IF ~present
    THEN [pc |-> "done", result |-> "True"]
    ELSE [pc |-> "sleep", result |-> "pending"]

\* a loop over range(wait_time - 1)
after_sleep_one_short(i) ==
    IF i + 1 < wait_time - 1
    THEN [pc |-> "poll", i |-> i + 1, result |-> "pending"]
    ELSE [pc |-> "done", i |-> i, result |-> "False"]

\* for i in range(wait_time): after the sleep that ends iteration i, the next
\* iteration, or return False when the range is exhausted
after_sleep(i) ==
    IF i + 1 < wait_time
    THEN [pc |-> "poll", i |-> i + 1, result |-> "pending"]
    ELSE [pc |-> "done", i |-> i, result |-> "False"]

NoDetection == Detection(FALSE, PyNone, PyNone, "not called")

CaptchaInit ==
    /\ cap_pc = "start"
    /\ api_key \in BOOLEAN
    /\ captcha_type \in CaptchaTypes
    /\ manual_run = FALSE
    /\ shot_failed = FALSE
    /\ poll_i = 0
    /\ detect_calls = 0
    /\ present_polls = 0
    /\ last_detect = NoDetection
    /\ cap_result = "pending"

\* solve_captcha is not running
CaptchaIdle ==
    /\ cap_pc = "idle"
    /\ api_key = FALSE
    /\ captcha_type = "unknown"
    /\ manual_run = FALSE
    /\ shot_failed = FALSE
    /\ poll_i = 0
    /\ detect_calls = 0
    /\ present_polls = 0
    /\ last_detect = NoDetection
    /\ cap_result = "pending"

\* solve_captcha up to its return from a solver hook or its call of
\* _manual_intervention
SolveCaptcha ==
    /\ cap_pc = "start"
    /\ LET d == solve_dispatch(api_key, captcha_type)
       IN  IF d.returns
           THEN /\ cap_pc' = "done"
                /\ cap_result' = PyBool(d.value)
                /\ manual_run' = FALSE
           ELSE /\ cap_pc' = "screenshot"
                /\ cap_result' = "pending"
                /\ manual_run' = TRUE
    /\ UNCHANGED <<api_key, captcha_type, shot_failed, poll_i, detect_calls,
                   present_polls, last_detect>>
    /\ UNCHANGED <<parserVars, submitVars, detectVars, findVars, executeVars, serverVars,
                   loginVars, reparseVars>>

\* _manual_intervention: page.screenshot() and the write of the file; a
\* failure of either is caught by except Exception: return False
ManualScreenshot ==
    /\ cap_pc = "screenshot"
    /\ \E ok \in BOOLEAN :
          IF ok
          THEN /\ cap_pc' = "poll"
               /\ poll_i' = 0
               /\ UNCHANGED <<shot_failed, cap_result>>
          ELSE /\ cap_pc' = "done"
               /\ shot_failed' = TRUE
               /\ cap_result' = "False"
               /\ UNCHANGED poll_i
    /\ UNCHANGED <<api_key, captcha_type, manual_run, detect_calls,
                   present_polls, last_detect>>
    /\ UNCHANGED <<parserVars, submitVars, detectVars, findVars, executeVars, serverVars,
                   loginVars, reparseVars>>

\* is_captcha_present, _, _ = await self.detect_captcha(), on whatever the
\* page is at that moment, and the test that follows
ManualPoll ==
    /\ cap_pc = "poll"
    /\ \E page \in Pages :
          LET d == Detect[page]
          IN  /\ last_detect' = d
              /\ detect_calls' = detect_calls + 1
              /\ present_polls' = present_polls + (IF d.present THEN 1 ELSE 0)
              /\ cap_pc' = after_detect(d.present).pc
              /\ cap_result' = after_detect(d.present).result
    /\ UNCHANGED <<api_key, captcha_type, manual_run, shot_failed, poll_i>>
    /\ UNCHANGED <<parserVars, submitVars, detectVars, findVars, executeVars, serverVars,
                   loginVars, reparseVars>>

\* await asyncio.sleep(1) and the step of the for loop
ManualSleep ==
    /\ cap_pc = "sleep"
    /\ cap_pc' = after_sleep(poll_i).pc
    /\ poll_i' = after_sleep(poll_i).i
    /\ cap_result' = after_sleep(poll_i).result
    /\ UNCHANGED <<api_key, captcha_type, manual_run, shot_failed,
                   detect_calls, present_polls, last_detect>>
    /\ UNCHANGED <<parserVars, submitVars, detectVars, findVars, executeVars, serverVars,
                   loginVars, reparseVars>>

CaptchaNext == SolveCaptcha \/ ManualScreenshot \/ ManualPoll \/ ManualSleep

----------------------------------------------------------------------------
(* captcha_handler.py: detect_captcha, one call on the page at a time      *)

\* return True, captcha_type, element: for the selector at index i
selector_hit(i) ==
    Detection(TRUE, PyStr(classify(CAPTCHA_SELECTORS[i])),
              PyStr(CAPTCHA_SELECTORS[i]), "selector")

\* a scan that compares the page text as it is
scan_text_case_sensitive(page_text) ==
    IF \E n \in 1..Len(CAPTCHA_TEXT_PATTERNS) :
          contains(CAPTCHA_TEXT_PATTERNS[n], page_text)
    THEN Detection(TRUE, PyStr("unknown"), PyNone, "text")
    ELSE Detection(FALSE, PyNone, PyNone, "none")

\* the scan of page_text for the CAPTCHA_TEXT_PATTERNS, and the two returns
\* that end it
scan_text(page_text) ==
    Value({
      IF \E n \in 1..Len(CAPTCHA_TEXT_PATTERNS) :
            contains(CAPTCHA_TEXT_PATTERNS[n], page_text_lower)
      THEN Detection(TRUE, PyStr("unknown"), PyNone, "text")
      ELSE Detection(FALSE, PyNone, PyNone, "none")
      : page_text_lower \in {lower(page_text)} })

\* a loop over the selectors that goes on after a hit
after_query_scan_on(i, element) ==
    IF i < Len(CAPTCHA_SELECTORS)
    THEN [pc |-> "query", i |-> i + 1]
    ELSE [pc |-> "content", i |-> i]

\* the body of the loop over CAPTCHA_SELECTORS after query_selector returned:
\* return on an element, else the next selector, else the text scan
after_query(i, element) ==
    IF element
    THEN [pc |-> "done", i |-> i]
    ELSE IF i < Len(CAPTCHA_SELECTORS)
         THEN [pc |-> "query", i |-> i + 1]
         ELSE [pc |-> "content", i |-> i]

\* except Exception: return False, None, None
detect_exception == Detection(FALSE, PyNone, PyNone, "exception")

NoPage == Page({}, "", FALSE)

DetectInit ==
    /\ det_pc = "query"
    /\ det_page \in Pages
    /\ det_i = 1
    /\ det_queried = <<>>
    /\ det_read = FALSE
    /\ det_raised = FALSE
    /\ det_result = NoDetection

\* detect_captcha is not running
DetectIdle ==
    /\ det_pc = "idle"
    /\ det_page = NoPage
    /\ det_i = 1
    /\ det_queried = <<>>
    /\ det_read = FALSE
    /\ det_raised = FALSE
    /\ det_result = NoDetection

\* element = await self.page.query_selector(selector) for the selector at
\* det_i, and the test of the element; the call raises on a page that is
\* closed or navigating, which may happen at any query
DetectQuery ==
    /\ det_pc = "query"
    /\ det_queried' = Append(det_queried, det_i)
    /\ \E raises \in BOOLEAN :
          /\ det_page.raises => raises
          /\ IF raises
             THEN /\ det_raised' = TRUE
                  /\ det_pc' = "done"
                  /\ det_result' = detect_exception
                  /\ UNCHANGED det_i
             ELSE LET element == det_i \in det_page.elements
                      next    == after_query(det_i, element)
                  IN  /\ det_pc' = next.pc
                      /\ det_i' = next.i
                      /\ det_result' = IF next.pc = "done"
                                       THEN selector_hit(det_i)
                                       ELSE det_result
                      /\ UNCHANGED det_raised
    /\ UNCHANGED <<det_page, det_read>>
    /\ UNCHANGED <<parserVars, submitVars, captchaVars, findVars, executeVars, serverVars,
                   loginVars, reparseVars>>

\* page_text = await self.page.content() and the scan of the text patterns
DetectContent ==
    /\ det_pc = "content"
    /\ det_read' = TRUE
    /\ det_pc' = "done"
    /\ \E raises \in BOOLEAN :
          /\ det_page.raises => raises
          /\ IF raises
             THEN /\ det_raised' = TRUE
                  /\ det_result' = detect_exception
             ELSE /\ det_result' = scan_text(det_page.content)
                  /\ UNCHANGED det_raised
    /\ UNCHANGED <<det_page, det_i, det_queried>>
    /\ UNCHANGED <<parserVars, submitVars, captchaVars, findVars, executeVars, serverVars,
                   loginVars, reparseVars>>

DetectNext == DetectQuery \/ DetectContent

----------------------------------------------------------------------------
(* browser.py: _find_element                                               *)

\* timeout=5000, the default of _find_element
default_timeout == 5000

\* timeout=30000, the default of _wait_for_element, which it passes on
wait_for_element_timeout == 30000

\* timeout=1000 of the lookup of the input a label is for
label_for_timeout == 1000

\* timeout=1000 of each of the common selectors
common_timeout == 1000

\* the eight selectors tried after text, placeholder and label
common_selectors(id) ==
    << "input[name*='" \o id \o "' i]",
       "input[id*='" \o id \o "' i]",
       "input[aria-label*='" \o id \o "' i]",
       "textarea[name*='" \o id \o "' i]",
       "textarea[id*='" \o id \o "' i]",
       "textarea[aria-label*='" \o id \o "' i]",
       "button:has-text('" \o id \o "')",
       "a:has-text('" \o id \o "')" >>

\* the strategies in the order of the code: text, placeholder, label, then
\* the common selectors
NumStrategies == 3 + Len(common_selectors(""))

LabelStrategy == 3

\* the selector strategy k waits for
strategy_selector(k, id) ==
    CASE k = 1 -> "text='" \o id \o "'"
      [] k = 2 -> "[placeholder*='" \o id \o "' i]"
      [] k = 3 -> "label:has-text('" \o id \o "')"
      [] OTHER -> common_selectors(id)[k - 3]

\* every strategy waiting for the timeout argument
strategy_timeout_all_full(k, timeout) == timeout

\* the timeout strategy k passes to wait_for_selector for its own selector
strategy_timeout(k, timeout) ==
    IF k <= 3 THEN timeout ELSE common_timeout

\* how long a wait_for_selector bounded by timeout can take: it returns or
\* raises at once, or when the timeout runs out
WaitTimes(timeout) == {0, timeout}

\* an ElementHandle: the strategy that returned it, which element of that
\* strategy it is, and the selector that found the strategy's element
Handle(k, part, selector) ==
    [kind |-> "handle", strategy |-> k, part |-> part, selector |-> selector]

NoHandle == [kind |-> "none"]

\* What one strategy does: whether its own selector found an element, the
\* handle it returns (NoHandle when it falls through), whether a lookup in
\* it raised into its bare except, the time its waits took, and for the
\* label strategy the statement at which it ended.
StrategyOutcome(found, ret, raised, spent) ==
    [found |-> found, ret |-> ret, raised |-> raised, spent |-> spent, step |-> ""]

\* the outcome o of the label strategy, ended at the statement `step`: the
\* return of a handle, or the call that raised into the bare except
EndedAt(step, o) == [o EXCEPT !.step = step]

\* the label strategy once the label element is there, spent being the time
\* so far: input_inside = await element.query_selector('input')
label_inside(sel, spent) ==
    { EndedAt("return input_inside",
          StrategyOutcome(TRUE, Handle(LabelStrategy, "input_inside", sel), FALSE, spent)),
      EndedAt("return element",
          StrategyOutcome(TRUE, Handle(LabelStrategy, "element", sel), FALSE, spent)),
      EndedAt("query_selector", StrategyOutcome(TRUE, NoHandle, TRUE, spent)) }

\* the label strategy once the label element is there: get_attribute('for'),
\* the wait for the input it names, the input inside the label, the label
label_found(sel, spent) ==
    \* get_attribute raises
    { EndedAt("get_attribute", StrategyOutcome(TRUE, NoHandle, TRUE, spent)) }
    \* label_for is None or empty
    \cup label_inside(sel, spent)
    \* label_for names an id: wait_for_selector(f"#{label_for}", timeout=1000)
    \* returns the input, raises when it is not there in time, or returns None
    \cup UNION { { EndedAt("return input_element",
                       StrategyOutcome(TRUE, Handle(LabelStrategy, "input_element", sel),
                                       FALSE, spent + w)),
                   EndedAt("wait_for_selector",
                       StrategyOutcome(TRUE, NoHandle, TRUE, spent + w)) }
                 \cup label_inside(sel, spent + w)
                 : w \in WaitTimes(label_for_timeout) }

\* everything strategy k can do on some page
strategy_outcomes(k, id, timeout) ==
    LET sel == strategy_selector(k, id)
    IN  UNION {
          \* wait_for_selector returns None, or raises
          { StrategyOutcome(FALSE, NoHandle, FALSE, w),
            StrategyOutcome(FALSE, NoHandle, TRUE, w) }
          \* wait_for_selector returns an element
          \cup (IF k = LabelStrategy
                THEN label_found(sel, w)
                ELSE { StrategyOutcome(TRUE, Handle(k, "element", sel), FALSE, w) })
          : w \in WaitTimes(strategy_timeout(k, timeout)) }

\* a chain in which a lookup that raises ends the resolution
after_strategy_abort(k, o, id) ==
    IF o.ret # NoHandle
    THEN [pc |-> "done", k |-> k, result |-> o.ret]
    ELSE IF o.raised
         THEN [pc |-> "done", k |-> k,
               result |-> [kind |-> "raised",
                           exc  |-> Exc("ElementNotFoundError",
                                        "Error finding element '" \o id \o "'")]]
         ELSE [pc |-> "strategy", k |-> k + 1, result |-> [kind |-> "pending"]]

\* after strategy k did o: return its handle, else the next strategy, else
\* raise ElementNotFoundError(f"Could not find element: {identifier}"),
\* which except ElementNotFoundError re-raises
after_strategy(k, o, id) ==
    IF o.ret # NoHandle
    THEN [pc |-> "done", k |-> k, result |-> o.ret]
    ELSE IF k < NumStrategies
         THEN [pc |-> "strategy", k |-> k + 1, result |-> [kind |-> "pending"]]
         ELSE [pc |-> "done", k |-> k,
               result |-> [kind |-> "raised",
                           exc  |-> Exc("ElementNotFoundError",
                                        "Could not find element: " \o id)]]

Identifiers == {"login", "Sign In"}

Timeouts == {default_timeout, wait_for_element_timeout}

FindInit ==
    /\ fe_pc = "strategy"
    /\ identifier \in Identifiers
    /\ fe_timeout \in Timeouts
    /\ fe_k = 1
    /\ fe_tried = <<>>
    /\ fe_first = 0
    /\ fe_swallowed = 0
    /\ fe_elapsed = 0
    /\ fe_label = ""
    /\ fe_result = [kind |-> "pending"]

\* _find_element is not running
FindIdle ==
    /\ fe_pc = "idle"
    /\ identifier = ""
    /\ fe_timeout = default_timeout
    /\ fe_k = 1
    /\ fe_tried = <<>>
    /\ fe_first = 0
    /\ fe_swallowed = 0
    /\ fe_elapsed = 0
    /\ fe_label = ""
    /\ fe_result = [kind |-> "pending"]

\* one strategy of _find_element, with the return or the raise that ends the
\* call when it is the one to end it
FindStrategy ==
    /\ fe_pc = "strategy"
    /\ \E o \in strategy_outcomes(fe_k, identifier, fe_timeout) :
          LET next == after_strategy(fe_k, o, identifier)
          IN  /\ fe_tried' = Append(fe_tried, fe_k)
              /\ fe_first' = IF fe_first = 0 /\ o.found THEN fe_k ELSE fe_first
              /\ fe_swallowed' = fe_swallowed + (IF o.raised THEN 1 ELSE 0)
              /\ fe_elapsed' = fe_elapsed + o.spent
              /\ fe_label' = IF fe_k = LabelStrategy THEN o.step ELSE fe_label
              /\ fe_pc' = next.pc
              /\ fe_k' = next.k
              /\ fe_result' = next.result
    /\ UNCHANGED <<identifier, fe_timeout>>
    /\ UNCHANGED <<parserVars, submitVars, captchaVars, detectVars, executeVars, serverVars,
                   loginVars, reparseVars>>

FindNext == FindStrategy

----------------------------------------------------------------------------
(* browser.py: the handlers                                                *)

\* a handler returned value
Returned(value) == [kind |-> "returned", value |-> value]

\* a handler raised exc
Raised(exc) == [kind |-> "raised", exc |-> exc]

\* What a handler did: `call` is the class of the taxonomy error that a call
\* of another method of the controller raised into the handler's try block
\* ("" when none did), `own` the class of the taxonomy error a raise
\* statement of the handler's try block raised ("" when none did), `out`
\* what the handler returned or raised.
HandlerOutcome(call, own, out) == [call |-> call, own |-> own, out |-> out]

\* str(value) in a message
str(value) == IF value = PyNone THEN "None" ELSE value.v

\* the truth value of a parameter: None and "" are falsy
PyTruthy(value) == value # PyNone /\ value.v # ""

\* parameters.get(key), for a keyword with default None
get(parameters, key) ==
    IF key \in DOMAIN parameters THEN parameters[key] ELSE PyNone

\* How the page answers a handler: whether goto and the wait after it
\* succeed, whether _find_element finds the identifier, whether the call on
\* the element found (click, fill, type), the sleep or the screenshot
\* succeeds, whether _submit succeeds, whether _type succeeds for one of
\* the username, password and search fields, what the wait for a generic
\* search box gives, whether the wait for network idle succeeds.
Envs ==
    [ goto            : {"ok", "raises"},
      find            : {"found", "ElementNotFoundError"},
      act             : {"ok", "raises"},
      submit          : {"ok", "raises"},
      username_filled : BOOLEAN,
      password_filled : BOOLEAN,
      search_filled   : BOOLEAN,
      search_box      : {"element", "none", "raises"},
      settle          : {"ok", "raises"} ]

NoEnv ==
    [ goto |-> "ok", find |-> "found", act |-> "ok", submit |-> "ok",
      username_filled |-> TRUE, password_filled |-> TRUE, search_filled |-> TRUE,
      search_box |-> "element", settle |-> "ok" ]

\* _navigate
navigate(url, e) ==
    LET target == IF startswith(url, "http://") \/ startswith(url, "https://")
                  THEN url ELSE "https://" \o url
    IN  IF e.goto = "ok"
        THEN HandlerOutcome("", "", Returned([url |-> target, title |-> "title"]))
        ELSE HandlerOutcome("", "",
                 Raised(Exc("NavigationError", "Failed to navigate to " \o target)))

\* _find_element, by its two ends
find_element(id, e) ==
    IF e.find = "found"
    THEN Returned(Handle(0, "element", id))
    ELSE Raised(Exc("ElementNotFoundError", "Could not find element: " \o id))

\* _click
click(text, e) ==
    LET element == find_element(text, e)
    IN  IF element.kind = "raised"
        THEN \* except ElementNotFoundError: raise
             HandlerOutcome(element.exc.cls, "", element)
        ELSE IF e.act = "raises"
             THEN HandlerOutcome("", "",
                      Raised(Exc("BrowserAutomationError",
                                 "Failed to click on '" \o text \o "'")))
             ELSE HandlerOutcome("", "", Returned([clicked |-> text]))

\* _type
type(text, field, e) ==
    LET element == find_element(field, e)
    IN  IF element.kind = "raised"
        THEN \* except ElementNotFoundError: raise
             HandlerOutcome(element.exc.cls, "", element)
        ELSE IF e.act = "raises"
             THEN HandlerOutcome("", "",
                      Raised(Exc("BrowserAutomationError",
                                 "Failed to type in field '" \o field \o "'")))
             ELSE HandlerOutcome("", "", Returned([field |-> field, typed |-> text]))

\* _submit, by its two ends
submit(e) ==
    IF e.submit = "ok"
    THEN HandlerOutcome("", "", Returned([submitted |-> TRUE]))
    ELSE HandlerOutcome("", "",
             Raised(Exc("BrowserAutomationError", "Failed to submit form")))

\* _wait
wait(seconds, e) ==
    IF e.act = "ok"
    THEN HandlerOutcome("", "", Returned([waited |-> seconds]))
    ELSE HandlerOutcome("", "",
             Raised(Exc("BrowserAutomationError", "Failed to wait")))

\* a _wait_for_element without its except ElementNotFoundError clause
wait_for_element_reraise(element, e) ==
    LET found == find_element(element, e)
    IN  IF found.kind = "raised"
        THEN HandlerOutcome(found.exc.cls, "", found)
        ELSE HandlerOutcome("", "", Returned([waited_for |-> element]))

\* _wait_for_element
wait_for_element(element, e) ==
    LET found == find_element(element, e)
    IN  IF found.kind = "raised"
        THEN \* except ElementNotFoundError: raise TimeoutError(...)
             HandlerOutcome(found.exc.cls, "",
                 Raised(Exc("TimeoutError",
                            "Timed out waiting for element: " \o element)))
        ELSE HandlerOutcome("", "", Returned([waited_for |-> element]))

\* _screenshot
screenshot(e) ==
    IF e.act = "ok"
    THEN HandlerOutcome("", "",
             Returned([screenshot |-> "base64", format |-> "base64"]))
    ELSE HandlerOutcome("", "",
             Raised(Exc("BrowserAutomationError", "Failed to take screenshot")))

\* await self.page.url(): Page.url is a property holding a str, so the call
\* of it raises TypeError('str' object is not callable)
page_url_call == "TypeError"

\* _login: every exception of its try block, typed or not, is caught by
\* except Exception and raised again as a BrowserAutomationError
login(website, username, password, e) ==
    LET failed == Raised(Exc("BrowserAutomationError",
                             "Failed to login to " \o website))
        nav    == navigate(website, e)
        \* the return statement, with "current_url": await self.page.url()
        report == IF page_url_call = "TypeError"
                  THEN failed
                  ELSE Returned([logged_in   |-> username # PyNone /\ password # PyNone,
                                 website     |-> website,
                                 current_url |-> "url"])
    IN  IF nav.out.kind = "raised"
        THEN HandlerOutcome(nav.out.exc.cls, "", failed)
        ELSE IF PyTruthy(username) /\ PyTruthy(password)
             THEN IF ~e.username_filled
                  THEN \* raise ElementNotFoundError("Could not find username field")
                       HandlerOutcome("", "ElementNotFoundError", failed)
                  ELSE IF ~e.password_filled
                       THEN \* raise ElementNotFoundError("Could not find password field")
                            HandlerOutcome("", "ElementNotFoundError", failed)
                       ELSE IF submit(e).out.kind = "raised"
                            THEN HandlerOutcome(submit(e).out.exc.cls, "", failed)
                            ELSE HandlerOutcome("", "", report)
             ELSE HandlerOutcome("", "", report)

\* _search: every exception of its try block, typed or not, is caught by
\* except Exception and raised again as a BrowserAutomationError
search(query, website, e) ==
    LET failed == Raised(Exc("BrowserAutomationError",
                             "Failed to search for '" \o query \o "' on " \o website))
        nav    == navigate(website, e)
        \* the return statement, with "current_url": await self.page.url()
        report == IF page_url_call = "TypeError"
                  THEN failed
                  ELSE Returned([search_query |-> query, website |-> website,
                                 current_url  |-> "url"])
        \* from self._submit() on
        rest   == IF submit(e).out.kind = "raised"
                  THEN HandlerOutcome(submit(e).out.exc.cls, "", failed)
                  ELSE IF e.settle = "raises"
                       THEN HandlerOutcome("", "", failed)
                       ELSE HandlerOutcome("", "", report)
    IN  IF nav.out.kind = "raised"
        THEN HandlerOutcome(nav.out.exc.cls, "", failed)
        ELSE IF e.search_filled
             THEN rest
             ELSE \* the wait for any visible search box, timeout=5000
                  CASE e.search_box = "raises"  -> HandlerOutcome("", "", failed)
                    [] e.search_box = "none"    ->
                         \* raise ElementNotFoundError("Could not find search field")
                         HandlerOutcome("", "ElementNotFoundError", failed)
                    [] e.search_box = "element" ->
                         IF e.act = "raises"
                         THEN HandlerOutcome("", "", failed)
                         ELSE rest

----------------------------------------------------------------------------
(* browser.py: execute                                                     *)

\* the keys of action_map
action_map ==
    {"navigate", "click", "type", "submit", "wait", "wait_for_element",
     "screenshot", "login", "search"}

\* a map that holds every name
in_action_map_any(action) == TRUE

\* action in action_map
in_action_map(action) == action \in action_map

\* the keywords of each handler: those without a default, those with one
signature(action) ==
    CASE action = "navigate"         -> [required |-> {"url"}, optional |-> {}]
      [] action = "click"            -> [required |-> {"text"}, optional |-> {}]
      [] action = "type"             -> [required |-> {"text", "field"}, optional |-> {}]
      [] action = "submit"           -> [required |-> {}, optional |-> {}]
      [] action = "wait"             -> [required |-> {"seconds"}, optional |-> {}]
      [] action = "wait_for_element" -> [required |-> {"element"}, optional |-> {"timeout"}]
      [] action = "screenshot"       -> [required |-> {}, optional |-> {}]
      [] action = "login"            -> [required |-> {"website"},
                                         optional |-> {"username", "password"}]
      [] action = "search"           -> [required |-> {"query", "website"}, optional |-> {}]
      [] OTHER                       -> [required |-> {}, optional |-> {}]

\* whether action_map[action](**parameters) binds: no keyword without a
\* default is missing and none is unexpected; otherwise the call raises
\* TypeError
binds(action, parameters) ==
    /\ signature(action).required \subseteq DOMAIN parameters
    /\ DOMAIN parameters \subseteq
          signature(action).required \cup signature(action).optional

\* action_map[action](**parameters), once the keywords are bound
handler(action, p, e) ==
    CASE action = "navigate"         -> navigate(str(p.url), e)
      [] action = "click"            -> click(str(p.text), e)
      [] action = "type"             -> type(str(p.text), str(p.field), e)
      [] action = "submit"           -> submit(e)
      [] action = "wait"             -> wait(p.seconds, e)
      [] action = "wait_for_element" -> wait_for_element(str(p.element), e)
      [] action = "screenshot"       -> screenshot(e)
      [] action = "login"            -> login(str(p.website), get(p, "username"),
                                              get(p, "password"), e)
      [] action = "search"           -> search(str(p.query), str(p.website), e)
      [] OTHER                       -> HandlerOutcome("", "",
                                            Raised(Exc("KeyError", action)))

\* a dispatcher that lets every exception through as it is
leaving_unwrapped(action, out) == out

\* the except clauses of execute: a BrowserAutomationError is raised again
\* as it is, any other exception as BrowserAutomationError(f"Failed to
\* execute {action}: ...")
leaving(action, out) ==
    IF out.kind = "raised" /\ ~IsBrowserAutomationError(out.exc.cls)
    THEN Raised(Exc("BrowserAutomationError", "Failed to execute " \o action))
    ELSE out

\* an entry that never initializes
needs_initialize_never(flag) == FALSE

\* if not self.initialized: at the entry of execute
needs_initialize(flag) == ~flag

\* what initialize acquires, in its order: async_playwright().start(),
\* chromium.launch, new_context, new_page
session_resources == <<"playwright", "browser", "context", "page">>

\* the order in which close releases
close_order == <<"page", "context", "browser", "playwright">>

\* What close can leave of the resources held: it releases them in its
\* order; when a release raises, the exception is logged and the rest is
\* kept.
close(held) ==
    { held \ {close_order[j] : j \in 1..m} : m \in 0..Len(close_order) }

NotStarted == [handler |-> "", initialized |-> FALSE]

NoTrace == [call |-> "", own |-> ""]

Pending == [kind |-> "pending"]

ParameterChoices ==
    { EmptyDict,
      [url |-> PyStr("github.com")],
      [text |-> PyStr("login")],
      [text |-> PyStr("login"), timeout |-> PyInt(1000)],
      [text |-> PyStr("hello world"), field |-> PyStr("search")],
      [seconds |-> PyInt(5)],
      [element |-> PyStr("results")],
      [element |-> PyStr("results"), timeout |-> PyInt(1000)],
      [website |-> PyStr("github.com"), username |-> PyNone, password |-> PyNone],
      [website |-> PyStr("github.com"), username |-> PyStr("myuser"),
       password |-> PyStr("mypass")],
      [query |-> PyStr("python automation"), website |-> PyStr("google.com")] }

ActionNames == action_map \cup {"delete"}

ExecuteInit ==
    /\ ex_pc = "entry"
    /\ ex_action \in ActionNames
    /\ ex_parameters \in ParameterChoices
    /\ initialized \in BOOLEAN
    /\ resources = (IF initialized
                    THEN {session_resources[j] : j \in 1..Len(session_resources)}
                    ELSE {})
    /\ init_calls = 0
    /\ started = NotStarted
    /\ env = NoEnv
    /\ trace = NoTrace
    /\ ex_result = Pending

\* execute is not running
ExecuteIdle ==
    /\ ex_pc = "idle"
    /\ ex_action = ""
    /\ ex_parameters = EmptyDict
    /\ initialized = FALSE
    /\ resources = {}
    /\ init_calls = 0
    /\ started = NotStarted
    /\ env = NoEnv
    /\ trace = NoTrace
    /\ ex_result = Pending

\* The entry of execute: if not self.initialized: await self.initialize().
\* initialize acquires the resources in order and sets the flag; when the
\* n-th acquisition raises it closes what it holds and raises
\* BrowserAutomationError, which leaves execute.
ExecuteEntry ==
    /\ ex_pc = "entry"
    /\ IF needs_initialize(initialized)
       THEN /\ init_calls' = init_calls + 1
            /\ \E n \in 0..Len(session_resources) :
                  IF n = 0
                  THEN /\ initialized' = TRUE
                       /\ resources' = {session_resources[j] :
                                           j \in 1..Len(session_resources)}
                       /\ ex_pc' = "dispatch"
                       /\ UNCHANGED ex_result
                  ELSE /\ \E left \in close({session_resources[j] : j \in 1..(n - 1)}) :
                             resources' = left
                       /\ initialized' = FALSE
                       /\ ex_pc' = "done"
                       /\ ex_result' = Raised(Exc("BrowserAutomationError",
                                                  "Browser initialization failed"))
       ELSE /\ ex_pc' = "dispatch"
            /\ UNCHANGED <<initialized, resources, init_calls, ex_result>>
    /\ UNCHANGED <<ex_action, ex_parameters, started, env, trace>>
    /\ UNCHANGED <<parserVars, submitVars, captchaVars, detectVars, findVars, serverVars,
                   loginVars, reparseVars>>

\* The lookup in action_map and the call of the handler with the keywords:
\* an unknown action raises BrowserAutomationError before the try block, a
\* call that does not bind raises TypeError inside it.
ExecuteDispatch ==
    /\ ex_pc = "dispatch"
    /\ IF ~in_action_map(ex_action)
       THEN /\ ex_pc' = "done"
            /\ ex_result' = Raised(Exc("BrowserAutomationError",
                                       "Unknown action: " \o ex_action))
            /\ UNCHANGED started
       ELSE IF ~binds(ex_action, ex_parameters)
            THEN /\ ex_pc' = "done"
                 /\ ex_result' = leaving(ex_action, Raised(Exc("TypeError", ex_action)))
                 /\ UNCHANGED started
            ELSE /\ ex_pc' = "handler"
                 /\ started' = [handler |-> ex_action, initialized |-> initialized]
                 /\ UNCHANGED ex_result
    /\ UNCHANGED <<ex_action, ex_parameters, initialized, resources, init_calls,
                   env, trace>>
    /\ UNCHANGED <<parserVars, submitVars, captchaVars, detectVars, findVars, serverVars,
                   loginVars, reparseVars>>

\* The handler runs against the page, and execute returns its result or
\* raises what its except clauses make of the handler's exception.
ExecuteHandler ==
    /\ ex_pc = "handler"
    /\ \E e \in Envs :
          LET h == handler(ex_action, ex_parameters, e)
          IN  /\ env' = e
              /\ trace' = [call |-> h.call, own |-> h.own]
              /\ ex_result' = leaving(ex_action, h.out)
    /\ ex_pc' = "done"
    /\ UNCHANGED <<ex_action, ex_parameters, initialized, resources, init_calls,
                   started>>
    /\ UNCHANGED <<parserVars, submitVars, captchaVars, detectVars, findVars, serverVars,
                   loginVars, reparseVars>>

ExecuteNext == ExecuteEntry \/ ExecuteDispatch \/ ExecuteHandler


----------------------------------------------------------------------------
(***************************************************************************)
(* app.py and browser.py: the session and the tasks that share it          *)
(*                                                                         *)
(* The server runs each request as a coroutine on one event loop: a task   *)
(* runs alone from one await to the next, and another task may run while   *)
(* it is suspended.  Each action below is the stretch of one task from the *)
(* completion of the await it is suspended at to its next await.  Neither  *)
(* app.py nor browser.py holds a lock.                                     *)
(***************************************************************************)

\* how many requests the server receives
MaxRequests == 2

\* how many times initialize and close are called directly
MaxCalls == 3

\* task 0 runs startup_event and later shutdown_event, the others a request
TaskIds == 0..MaxRequests

\* BrowserController.__init__
NewSession ==
    [ initialized |-> FALSE, playwright |-> FALSE, browser |-> 0,
      context |-> FALSE, page |-> FALSE ]

NoEntry == [session |-> NewSession, acquisitions |-> 0]

NoTask ==
    [ kind |-> "", self |-> 0, pc |-> "idle", ret |-> "", failing |-> FALSE,
      call |-> "", calls |-> 0, entry |-> NoEntry, closing |-> 0,
      teardown |-> FALSE, result |-> "" ]

\* the awaits of initialize and of close, in their order
initialize_awaits == <<"init_start", "init_launch", "init_context", "init_page">>

close_awaits == <<"close_page", "close_context", "close_browser", "close_playwright">>

\* the position of an await in its method
Stage(awaits, at) == CHOOSE j \in 1..Len(awaits) : awaits[j] = at

\* whether the session holds the resource: if self.page, if self.context, ...
holds(session, resource) ==
    IF resource = "browser" THEN session.browser # 0 ELSE session[resource]

World ==
    [ controller |-> controller, sessions |-> sessions, tasks |-> tasks,
      live |-> live, acquisitions |-> acquisitions, phase |-> phase ]

Commit(w) ==
    /\ controller' = w.controller
    /\ sessions' = w.sessions
    /\ tasks' = w.tasks
    /\ live' = w.live
    /\ acquisitions' = w.acquisitions
    /\ phase' = w.phase

RECURSIVE resume(_, _, _)

\* an initialize without its first two lines
initialize_unguarded(w, t, ret) ==
    [w EXCEPT !.tasks[t].pc = initialize_awaits[1],
              !.tasks[t].ret = ret,
              !.tasks[t].call = "initialize",
              !.tasks[t].teardown = FALSE,
              !.tasks[t].entry = [session      |-> w.sessions[w.tasks[t].self],
                                  acquisitions |-> w.acquisitions]]

\* The entry of initialize: if self.initialized: return; otherwise the task
\* awaits async_playwright().start().  `ret` names what the caller does
\* when initialize returns or raises.
initialize(w, t, ret) ==
    LET w1 == [w EXCEPT !.tasks[t].ret = ret,
                        !.tasks[t].call = "initialize",
                        !.tasks[t].teardown = FALSE,
                        !.tasks[t].entry = [session      |-> w.sessions[w.tasks[t].self],
                                            acquisitions |-> w.acquisitions]]
    IN  IF w.sessions[w.tasks[t].self].initialized
        THEN resume(w1, t, "returned")
        ELSE [w1 EXCEPT !.tasks[t].pc = initialize_awaits[1]]

\* close returns; a close that initialize called in its except clause is
\* followed by raise BrowserAutomationError("Browser initialization failed")
close_returns(w, t) ==
    IF w.tasks[t].failing
    THEN resume([w EXCEPT !.tasks[t].failing = FALSE], t, "BrowserAutomationError")
    ELSE resume(w, t, "returned")

RECURSIVE close_from(_, _, _)

\* close from its j-th resource on: the task awaits the close of the first
\* resource the session holds; past the last one it sets
\* self.initialized = False and returns
close_from(w, t, j) ==
    LET self == w.tasks[t].self
    IN  IF j > Len(close_order)
        THEN close_returns([w EXCEPT !.sessions[self].initialized = FALSE], t)
        ELSE IF holds(w.sessions[self], close_order[j])
             THEN [w EXCEPT !.tasks[t].pc = close_awaits[j],
                            !.tasks[t].closing = w.sessions[self].browser]
             ELSE close_from(w, t, j + 1)

\* The entry of close; `failing` tells the call in the except clause of
\* initialize from a call of the application.
close_session(w, t, ret, failing) ==
    LET w1 == IF failing
              THEN [w EXCEPT !.tasks[t].failing = TRUE,
                             !.tasks[t].teardown = TRUE]
              ELSE [w EXCEPT !.tasks[t].ret = ret,
                             !.tasks[t].call = "close",
                             !.tasks[t].teardown = FALSE,
                             !.tasks[t].entry =
                                 [session      |-> w.sessions[w.tasks[t].self],
                                  acquisitions |-> w.acquisitions]]
    IN  close_from(w1, t, 1)

\* The await of initialize that task t is suspended at completes.  When it
\* returns, its value is assigned and the task goes on to the next await,
\* or sets self.initialized = True and returns after the last; when it
\* raises, except Exception calls close.
initialize_await(w, t, ok) ==
    LET task == w.tasks[t]
        self == task.self
        j    == Stage(initialize_awaits, task.pc)
        id   == w.acquisitions + 1
        got  == CASE j = 1 -> [w EXCEPT !.sessions[self].playwright = TRUE]
                  [] j = 2 -> [w EXCEPT !.sessions[self].browser = id,
                                        !.live = @ \cup {id}]
                  [] j = 3 -> [w EXCEPT !.sessions[self].context = TRUE]
                  [] j = 4 -> [w EXCEPT !.sessions[self].page = TRUE,
                                        !.sessions[self].initialized = TRUE]
        w1   == [got EXCEPT !.acquisitions = id]
    IN  IF ~ok
        THEN close_session(w, t, task.ret, TRUE)
        ELSE IF j < Len(initialize_awaits)
             THEN [w1 EXCEPT !.tasks[t].pc = initialize_awaits[j + 1]]
             ELSE resume(w1, t, "returned")

\* The await of close that task t is suspended at completes.  When it
\* returns, the handle is cleared and close goes on; when it raises, except
\* Exception logs the error and close returns.
close_await(w, t, ok) ==
    LET task == w.tasks[t]
        self == task.self
        j    == Stage(close_awaits, task.pc)
        r    == close_order[j]
        w1   == IF r = "browser"
                THEN [w EXCEPT !.sessions[self].browser = 0,
                               !.live = @ \ {task.closing}]
                ELSE [w EXCEPT !.sessions[self][r] = FALSE]
    IN  IF ok THEN close_from(w1, t, j + 1) ELSE close_returns(w, t)

\* What the caller does when the method it awaited returns ("returned") or
\* raises (the class of the error).
resume(w, t, result) ==
    LET task == w.tasks[t]
        done == [w EXCEPT !.tasks[t].pc = "done", !.tasks[t].result = result]
    IN  CASE task.ret = "startup" ->
               \* startup_event: an error of initialize ends the start-up
               [done EXCEPT !.phase = IF result = "returned"
                                      THEN "serving" ELSE "failed"]
          [] task.ret = "shutdown" ->
               [done EXCEPT !.phase = "stopped"]
          [] task.ret = "reset_closed" ->
               \* browser_controller = BrowserController()
               \* await browser_controller.initialize()
               LET c == Len(w.sessions) + 1
               IN  initialize([w EXCEPT !.sessions = Append(@, NewSession),
                                        !.controller = c,
                                        !.tasks[t].self = c],
                              t, "reset_initialized")
          [] task.ret = "reset_initialized" ->
               \* {"status": "success"}, or {"status": "error"} from
               \* except Exception
               done
          [] task.ret = "execute" ->
               \* execute goes on to the handler, which awaits the page; an
               \* error of initialize leaves execute
               IF result = "returned"
               THEN [w EXCEPT !.tasks[t].pc = "on_page"]
               ELSE done
          [] task.ret = "call" ->
               [w EXCEPT !.tasks[t].pc = "idle", !.tasks[t].result = result]

ServerInit ==
    /\ controller = 0
    /\ sessions = <<>>
    /\ tasks = [t \in TaskIds |-> NoTask]
    /\ live = {}
    /\ acquisitions = 0
    /\ phase = "starting"

\* the server is not running
ServerIdle ==
    /\ controller = 0
    /\ sessions = <<>>
    /\ tasks = [t \in TaskIds |-> NoTask]
    /\ live = {}
    /\ acquisitions = 0
    /\ phase = "idle"

\* startup_event, which the server runs before it serves any request
Startup ==
    /\ phase = "starting"
    /\ tasks[0].pc = "idle"
    /\ Commit(initialize([World EXCEPT !.sessions = <<NewSession>>,
                                       !.controller = 1,
                                       !.tasks[0].kind = "startup",
                                       !.tasks[0].self = 1],
                         0, "startup"))
    /\ UNCHANGED <<parserVars, submitVars, captchaVars, detectVars, findVars,
                   executeVars, loginVars, reparseVars>>

\* POST /interact up to the first await of execute: the command is parsed
\* and browser_controller.execute is called, which calls initialize when
\* the session is not initialized
RequestInteract(t) ==
    /\ phase = "serving"
    /\ t # 0
    /\ tasks[t].pc = "idle"
    /\ Commit(IF controller = 0
              THEN \* raise HTTPException(status_code=500)
                   [World EXCEPT !.tasks[t].kind = "interact",
                                 !.tasks[t].pc = "done",
                                 !.tasks[t].result = "HTTPException"]
              ELSE initialize([World EXCEPT !.tasks[t].kind = "interact",
                                            !.tasks[t].self = controller],
                              t, "execute"))
    /\ UNCHANGED <<parserVars, submitVars, captchaVars, detectVars, findVars,
                   executeVars, loginVars, reparseVars>>

\* POST /reset up to its first await
RequestReset(t) ==
    /\ phase = "serving"
    /\ t # 0
    /\ tasks[t].pc = "idle"
    /\ Commit(IF controller = 0
              THEN resume([World EXCEPT !.tasks[t].kind = "reset",
                                        !.tasks[t].ret = "reset_closed"],
                          t, "returned")
              ELSE close_session([World EXCEPT !.tasks[t].kind = "reset",
                                               !.tasks[t].self = controller],
                                 t, "reset_closed", FALSE))
    /\ UNCHANGED <<parserVars, submitVars, captchaVars, detectVars, findVars,
                   executeVars, loginVars, reparseVars>>

\* an await of initialize completes
InitializeAwait(t) ==
    /\ tasks[t].pc \in {initialize_awaits[j] : j \in 1..Len(initialize_awaits)}
    /\ \E ok \in BOOLEAN : Commit(initialize_await(World, t, ok))
    /\ UNCHANGED <<parserVars, submitVars, captchaVars, detectVars, findVars,
                   executeVars, loginVars, reparseVars>>

\* an await of close completes
CloseAwait(t) ==
    /\ tasks[t].pc \in {close_awaits[j] : j \in 1..Len(close_awaits)}
    /\ \E ok \in BOOLEAN : Commit(close_await(World, t, ok))
    /\ UNCHANGED <<parserVars, submitVars, captchaVars, detectVars, findVars,
                   executeVars, loginVars, reparseVars>>

\* the handler's await on the page completes and execute returns or raises
HandlerAwait(t) ==
    /\ tasks[t].pc = "on_page"
    /\ \E result \in {"returned", "BrowserAutomationError"} :
          tasks' = [tasks EXCEPT ![t].pc = "done", ![t].result = result]
    /\ UNCHANGED <<controller, sessions, live, acquisitions, phase>>
    /\ UNCHANGED <<parserVars, submitVars, captchaVars, detectVars, findVars,
                   executeVars, loginVars, reparseVars>>

\* shutdown_event, which the server runs once it has stopped accepting
\* requests and those in flight have completed
Shutdown ==
    /\ phase = "serving"
    /\ \A t \in TaskIds \ {0} : tasks[t].pc \in {"idle", "done"}
    /\ Commit(IF controller = 0
              THEN resume([World EXCEPT !.phase = "stopping",
                                        !.tasks[0].kind = "shutdown",
                                        !.tasks[0].ret = "shutdown"],
                          0, "returned")
              ELSE close_session([World EXCEPT !.phase = "stopping",
                                               !.tasks[0].kind = "shutdown",
                                               !.tasks[0].self = controller],
                                 0, "shutdown", FALSE))
    /\ UNCHANGED <<parserVars, submitVars, captchaVars, detectVars, findVars,
                   executeVars, loginVars, reparseVars>>

ServerNext ==
    \/ Startup
    \/ \E t \in TaskIds : RequestInteract(t)
    \/ \E t \in TaskIds : RequestReset(t)
    \/ \E t \in TaskIds : InitializeAwait(t)
    \/ \E t \in TaskIds : CloseAwait(t)
    \/ \E t \in TaskIds : HandlerAwait(t)
    \/ Shutdown

\* One controller whose initialize and close are called one after the
\* other, each call starting when the one before has returned or raised.
LifecycleInit ==
    /\ controller = 1
    /\ sessions = <<NewSession>>
    /\ tasks = [t \in TaskIds |->
                  IF t = 1 THEN [NoTask EXCEPT !.kind = "call", !.self = 1]
                  ELSE NoTask]
    /\ live = {}
    /\ acquisitions = 0
    /\ phase = "direct"

LifecycleCall ==
    /\ phase = "direct"
    /\ tasks[1].pc = "idle"
    /\ tasks[1].calls < MaxCalls
    /\ \E method \in {"initialize", "close"} :
          LET w == [World EXCEPT !.tasks[1].calls = @ + 1,
                                 !.tasks[1].result = ""]
          IN  Commit(IF method = "initialize"
                     THEN initialize(w, 1, "call")
                     ELSE close_session(w, 1, "call", FALSE))
    /\ UNCHANGED <<parserVars, submitVars, captchaVars, detectVars, findVars,
                   executeVars, loginVars, reparseVars>>

LifecycleNext ==
    \/ LifecycleCall
    \/ \E t \in TaskIds : InitializeAwait(t)
    \/ \E t \in TaskIds : CloseAwait(t)


----------------------------------------------------------------------------
(***************************************************************************)
(* browser.py: the entry-point loop of _login, one step per await          *)
(***************************************************************************)

login_buttons ==
    << "Log in", "Login", "Sign in", "Signin", "Sign In", "Account", "My Account" >>

\* continue: the next text of the for loop, or the code that follows it
continue_login(i) ==
    IF i < Len(login_buttons)
    THEN [pc |-> "probe", i |-> i + 1]
    ELSE [pc |-> "form", i |-> i]

\* after _navigate returned
LoginInit ==
    /\ lg_pc = "probe"
    /\ lg_i = 1
    /\ lg_probed = <<>>
    /\ lg_clicks = <<>>

\* _login is not running
LoginIdle ==
    /\ lg_pc = "idle"
    /\ lg_i = 1
    /\ lg_probed = <<>>
    /\ lg_clicks = <<>>

\* login_button = await self.page.wait_for_selector(f"text='{button_text}'",
\* timeout=2000): an element, None, or a timeout that the bare except turns
\* into continue
LoginProbe ==
    /\ lg_pc = "probe"
    /\ lg_probed' = Append(lg_probed, lg_i)
    /\ \E found \in {"element", "None", "raise"} :
          IF found = "element"
          THEN lg_pc' = "click" /\ lg_i' = lg_i
          ELSE lg_pc' = continue_login(lg_i).pc /\ lg_i' = continue_login(lg_i).i
    /\ UNCHANGED lg_clicks
    /\ UNCHANGED <<parserVars, submitVars, captchaVars, detectVars, findVars,
                   executeVars, serverVars, reparseVars>>

\* await login_button.click()
LoginClick ==
    /\ lg_pc = "click"
    /\ \E ok \in BOOLEAN :
          IF ok
          THEN /\ lg_clicks' = Append(lg_clicks, lg_i)
               /\ lg_pc' = "settle"
               /\ lg_i' = lg_i
          ELSE /\ lg_pc' = continue_login(lg_i).pc
               /\ lg_i' = continue_login(lg_i).i
               /\ UNCHANGED lg_clicks
    /\ UNCHANGED lg_probed
    /\ UNCHANGED <<parserVars, submitVars, captchaVars, detectVars, findVars,
                   executeVars, serverVars, reparseVars>>

\* await self.page.wait_for_load_state("networkidle"), then break; a
\* failure is caught by the bare except of the loop body
LoginSettle ==
    /\ lg_pc = "settle"
    /\ \E ok \in BOOLEAN :
          IF ok
          THEN lg_pc' = "form" /\ lg_i' = lg_i
          ELSE lg_pc' = continue_login(lg_i).pc /\ lg_i' = continue_login(lg_i).i
    /\ UNCHANGED <<lg_probed, lg_clicks>>
    /\ UNCHANGED <<parserVars, submitVars, captchaVars, detectVars, findVars,
                   executeVars, serverVars, reparseVars>>

LoginNext == LoginProbe \/ LoginClick \/ LoginSettle

----------------------------------------------------------------------------
(***************************************************************************)
(* parser.py and app.py: successive calls of parse_command                 *)
(*                                                                         *)
(* parse_command reads the module-level list COMMAND_PATTERNS and nothing  *)
(* else; what a call leaves behind is the dict its extractor returned,     *)
(* which interact goes on to change with parameters.update(options).       *)
(***************************************************************************)

\* how many calls of parse_command are made
MaxParses == 3

ReparseCommands ==
    {"submit", "Take a screenshot", "Go to github.com", "Click on \"Sign In\""}

NoCall == [command |-> "", raised |-> "", action |-> "", params |-> EmptyDict,
           ref |-> 0, updated |-> FALSE]

\* extractors that hand out one dict per rule instead of building one
extractor_dict_shared(h, cs, p) ==
    LET earlier == {k \in 1..Len(cs) : cs[k].ref # 0 /\ cs[k].rule = p.rule}
    IN  IF earlier = {}
        THEN [heap |-> Append(h, p.params), ref |-> Len(h) + 1]
        ELSE [heap |-> h, ref |-> cs[CHOOSE k \in earlier : TRUE].ref]

\* The dict a call returns: the lambda of the rule evaluates a dict display
\* ({}, {"url": ...}, ...), which builds a new dict at every call.
extractor_dict(h, cs, p) ==
    [heap |-> Append(h, p.params), ref |-> Len(h) + 1]

ReparseInit ==
    /\ heap = <<>>
    /\ calls = <<>>

\* parse_command is not in use
ReparseIdle ==
    /\ heap = <<>>
    /\ calls = <<>>

\* one call of parse_command; what the caller sees is the action and the
\* contents of the dict at the return
Reparse ==
    /\ Len(calls) < MaxParses
    /\ \E c \in ReparseCommands :
          LET p == Parse[c]
          IN  IF p.raised # ""
              THEN /\ calls' = Append(calls, [NoCall EXCEPT !.command = c,
                                                            !.raised = p.raised])
                   /\ UNCHANGED heap
              ELSE LET d == extractor_dict(heap, calls, p)
                   IN  /\ heap' = d.heap
                       /\ calls' = Append(calls,
                              [command |-> c, raised |-> "", action |-> p.action,
                               rule |-> p.rule, params |-> d.heap[d.ref],
                               ref |-> d.ref, updated |-> FALSE])
    /\ UNCHANGED <<parserVars, submitVars, captchaVars, detectVars, findVars,
                   executeVars, serverVars, loginVars>>

\* interact: if request.options: parameters.update(request.options), on the
\* dict the last call returned
UpdateOptions ==
    /\ calls # <<>>
    /\ calls[Len(calls)].ref # 0
    /\ ~calls[Len(calls)].updated
    /\ \E opts \in OptionChoices :
          /\ Truthy(opts)
          /\ heap' = [heap EXCEPT ![calls[Len(calls)].ref] = update(@, opts)]
    /\ calls' = [calls EXCEPT ![Len(calls)].updated = TRUE]
    /\ UNCHANGED <<parserVars, submitVars, captchaVars, detectVars, findVars,
                   executeVars, serverVars, loginVars>>

ReparseNext == Reparse \/ UpdateOptions

\* no call of detect_captcha, _find_element, execute, _login or
\* parse_command is running and the server is not running
BrowserIdle ==
    DetectIdle /\ FindIdle /\ ExecuteIdle /\ ServerIdle /\ LoginIdle /\ ReparseIdle

----------------------------------------------------------------------------
(* The specifications                                                      *)

Init == ParserInit /\ SubmitIdle /\ CaptchaIdle /\ BrowserIdle

\* the parser and the /interact boundary
Spec == Init /\ [][Next]_vars

SubmitSpecInit == ParserIdle /\ SubmitInit /\ CaptchaIdle /\ BrowserIdle

\* one call of _submit
SubmitSpec == SubmitSpecInit /\ [][SubmitNext]_vars

CaptchaSpecInit == ParserIdle /\ SubmitIdle /\ CaptchaInit /\ BrowserIdle

\* one call of solve_captcha
CaptchaSpec == CaptchaSpecInit /\ [][CaptchaNext]_vars

\* one call of solve_captcha on a running event loop: every await of the
\* coroutine (screenshot, detect_captcha, asyncio.sleep(1)) completes, so a
\* step that is possible is eventually taken
CaptchaLiveSpec == CaptchaSpecInit /\ [][CaptchaNext]_vars /\ WF_vars(CaptchaNext)

DetectSpecInit ==
    ParserIdle /\ SubmitIdle /\ CaptchaIdle /\ DetectInit /\ FindIdle /\ ExecuteIdle
       /\ ServerIdle /\ LoginIdle /\ ReparseIdle

\* one call of detect_captcha
DetectSpec == DetectSpecInit /\ [][DetectNext]_vars

FindSpecInit ==
    ParserIdle /\ SubmitIdle /\ CaptchaIdle /\ DetectIdle /\ FindInit /\ ExecuteIdle
       /\ ServerIdle /\ LoginIdle /\ ReparseIdle

\* one call of _find_element
FindSpec == FindSpecInit /\ [][FindNext]_vars

ExecuteSpecInit ==
    ParserIdle /\ SubmitIdle /\ CaptchaIdle /\ DetectIdle /\ FindIdle /\ ExecuteInit
       /\ ServerIdle /\ LoginIdle /\ ReparseIdle

\* one call of execute
ExecuteSpec == ExecuteSpecInit /\ [][ExecuteNext]_vars

ServerSpecInit ==
    ParserIdle /\ SubmitIdle /\ CaptchaIdle /\ DetectIdle /\ FindIdle /\ ExecuteIdle
       /\ ServerInit /\ LoginIdle /\ ReparseIdle

\* the server from its start to its shutdown, with MaxRequests requests
\* arriving at any moment while it serves
ServerSpec == ServerSpecInit /\ [][ServerNext]_vars

LifecycleSpecInit ==
    ParserIdle /\ SubmitIdle /\ CaptchaIdle /\ DetectIdle /\ FindIdle /\ ExecuteIdle
       /\ LifecycleInit /\ LoginIdle /\ ReparseIdle

\* MaxCalls direct calls of initialize and close on one controller
LifecycleSpec == LifecycleSpecInit /\ [][LifecycleNext]_vars

LoginSpecInit ==
    ParserIdle /\ SubmitIdle /\ CaptchaIdle /\ DetectIdle /\ FindIdle /\ ExecuteIdle
       /\ ServerIdle /\ LoginInit /\ ReparseIdle

\* the entry-point loop of one call of _login
LoginSpec == LoginSpecInit /\ [][LoginNext]_vars

ReparseSpecInit ==
    ParserIdle /\ SubmitIdle /\ CaptchaIdle /\ DetectIdle /\ FindIdle /\ ExecuteIdle
       /\ ServerIdle /\ LoginIdle /\ ReparseInit

\* MaxParses calls of parse_command, with interact's update of the dict
\* returned between them
ReparseSpec == ReparseSpecInit /\ [][ReparseNext]_vars

----------------------------------------------------------------------------
(* Properties of the parser and the boundary, under Spec                   *)

Parsed == pc \in {"parsed", "responded"}

\* C1: parse_command on a click command whose target is a quoted string
\* directly after 'click on', as in: Click on "Sign In", returns action
\* 'click' with parameters {text: "Sign In"}, the string as the user wrote
\* it, and does not raise.
C1_ClickOnQuotedText ==
    (Parsed /\ command = "Click on \"Sign In\"") =>
        /\ parsed.raised = ""
        /\ parsed.action = "click"
        /\ parsed.params = [text |-> PyStr("Sign In")]

\* C2: parse_command('type "hello world" into the search field') returns
\* action 'type' with exactly {text: 'hello world', field: 'search'}: the
\* trailing word 'field' is not part of the extracted field.
C2_QuotedTypeDropsFieldWord ==
    (Parsed /\ command = "type \"hello world\" into the search field") =>
        /\ parsed.raised = ""
        /\ parsed.action = "type"
        /\ parsed.rule = 4
        /\ parsed.params = [text |-> PyStr("hello world"), field |-> PyStr("search")]

\* C3: parse_command never partially parses: whenever it returns an action,
\* the rule that decided matched the whole normalized text, leaving no
\* trailing characters unconsumed.
C3_NeverPartiallyParses ==
    (Parsed /\ parsed.raised = "") => parsed.end = Len(normalize(command))

\* C4: when no parser rule matches, parse_command fails with an
\* InvalidCommandError, and /interact answers with a structured failure
\* response, not a generic server error.
C4_NoMatchIsInvalidCommand ==
    (Parsed /\ parsed.rule = 0) =>
        /\ parsed.raised = "InvalidCommandError"
        /\ pc = "responded" =>
              /\ response.kind = "CommandResponse"
              /\ response.success = FALSE
              /\ response.data.error_type = "InvalidCommandError"

\* the rules whose pattern matches the normalized text n
rules_matching(n) ==
    {i \in 1..NumRules : re_match(COMMAND_PATTERNS[i].pattern, n).ok}

Lowest(S) == CHOOSE i \in S : \A j \in S : i <= j

\* For every input: the rules that match it, the lowest of them, and what
\* that rule's extractor yields
FirstMatch ==
    [c \in Commands |->
        Value({
          Value({
            IF M = {} THEN [matching |-> M, rule |-> 0]
            ELSE Value({
                   [matching |-> M, rule |-> i,
                    action   |-> COMMAND_PATTERNS[i].action,
                    yield    |-> param_extractor(i, re_match(COMMAND_PATTERNS[i].pattern, n))]
                   : i \in {Lowest(M)} })
            : M \in {rules_matching(n)} })
          : n \in {normalize(c)} })]

\* C5: evaluation is first-match-wins: the returned action and parameters
\* are those of the lowest-index rule whose pattern matches the normalized
\* text, that rule's extractor is the only one invoked, and no pattern after
\* it is tried; when no rule matches, no extractor is invoked.
C5_FirstMatchWins ==
    Parsed =>
        LET f == FirstMatch[command]
        IN  /\ parsed.rule = f.rule
            /\ f.rule # 0 =>
                  /\ parsed.raised = f.yield.raised
                  /\ parsed.params = f.yield.params
                  /\ parsed.raised = "" => parsed.action = f.action
                  /\ parsed.extracted = <<f.rule>>
                  /\ parsed.tried = [j \in 1..f.rule |-> j]
            /\ f.rule = 0 =>
                  /\ parsed.raised = "ValueError"
                  /\ parsed.extracted = <<>>

\* C5 happens: an input that two rules match was parsed by the lower rule
C5_Witness ==
    /\ pc = "parsed"
    /\ command = "wait for 5 seconds"
    /\ FirstMatch[command].matching = {7, 8}
    /\ parsed.rule = 7
    /\ parsed.action = "wait"

\* C6: the parameters passed to execute are the parser's with the caller's
\* options merged on top: every key of options has the caller's value, and
\* every parser key absent from options keeps the parser's value.
C6_OptionsOverride ==
    (pc = "responded" /\ executed.called) =>
        LET opts == IF options = PyNone THEN EmptyDict ELSE options
        IN  /\ executed.action = parsed.action
            /\ DOMAIN executed.parameters = DOMAIN parsed.params \cup DOMAIN opts
            /\ \A k \in DOMAIN opts : executed.parameters[k] = opts[k]
            /\ \A k \in DOMAIN parsed.params \ DOMAIN opts :
                  executed.parameters[k] = parsed.params[k]

\* C6 happens: the caller's text replaced the parser's, the parser's field
\* was kept
C6_Witness ==
    /\ pc = "responded"
    /\ command = "Type \"hello world\" into the search field"
    /\ options = [text |-> PyStr("Submit")]
    /\ executed.called
    /\ parsed.params = [text |-> PyStr("hello world"), field |-> PyStr("search field")]
    /\ executed.parameters = [text |-> PyStr("Submit"), field |-> PyStr("search field")]

----------------------------------------------------------------------------
(* Properties of _submit, under SubmitSpec                                 *)

\* C7: once a submit-button click or an Enter press has been delivered,
\* _submit returns {submitted: true} and never raises, also when the
\* network-idle wait that follows fails.
C7_NoRaiseAfterGesture ==
    (sub_pc = "done" /\ gestures # <<>>) => sub_result = "submitted"

----------------------------------------------------------------------------
(* Properties of solve_captcha, under CaptchaSpec                          *)

\* C8: solve_captcha never returns false without the manual-intervention
\* escalation having been run, in particular when a key is configured and
\* the solver hook of the kind returns 'not solved'.
C8_FalseOnlyAfterManual ==
    (cap_pc = "done" /\ cap_result = "False") => manual_run

\* C9: the manual-intervention loop succeeds at the first poll at which
\* detection reports absence: with the CAPTCHA present at polls 1..k-1 and
\* absent at poll k (k <= 30), it has returned true after exactly k calls of
\* detect_captcha.
C9_SucceedsAtFirstAbsentPoll ==
    (detect_calls >= 1 /\ ~last_detect.present) =>
        /\ cap_pc = "done"
        /\ cap_result = "True"
        /\ present_polls = detect_calls - 1
        /\ detect_calls <= wait_time

\* C9 happens: the CAPTCHA disappears at the 10th of the 30 polls
C9_Witness ==
    /\ cap_pc = "done"
    /\ cap_result = "True"
    /\ detect_calls = 10
    /\ present_polls = 9
    /\ ~last_detect.present

\* C10, as stated: _manual_intervention always terminates, calls
\* detect_captcha at most 30 times, and returns false only when all 30 polls
\* reported the CAPTCHA present.
C10_FalseOnlyAfterCeiling ==
    /\ [](detect_calls <= wait_time)
    /\ []((cap_pc = "done" /\ manual_run /\ cap_result = "False") =>
             /\ detect_calls = wait_time
             /\ present_polls = wait_time)
    /\ (manual_run ~> cap_pc = "done")

\* C10, amended: _manual_intervention always terminates, calls
\* detect_captcha at most 30 times, and returns false only when all 30 polls
\* reported the CAPTCHA present, or when taking or saving the screenshot
\* raised, before any poll.
C10_FalseAfterCeilingOrScreenshot ==
    /\ [](detect_calls <= wait_time /\ present_polls <= detect_calls)
    /\ []((cap_pc = "done" /\ manual_run /\ cap_result = "False") =>
             \/ shot_failed /\ detect_calls = 0
             \/ ~shot_failed /\ detect_calls = wait_time /\ present_polls = wait_time)
    /\ (manual_run ~> cap_pc = "done")

\* C10 happens: the ceiling elapsed with the CAPTCHA present at every poll
C10_Witness ==
    /\ cap_pc = "done"
    /\ manual_run
    /\ cap_result = "False"
    /\ ~shot_failed
    /\ detect_calls = wait_time
    /\ present_polls = wait_time
    /\ poll_i = wait_time - 1

----------------------------------------------------------------------------
(* Properties of detect_captcha, under DetectSpec                          *)

\* what detect_captcha reports for absence
Absent(d) == ~d.present /\ d.captcha_type = PyNone /\ d.element = PyNone

HasPhrase(text) ==
    \E n \in 1..Len(CAPTCHA_TEXT_PATTERNS) :
        contains(CAPTCHA_TEXT_PATTERNS[n], lower(text))

----------------------------------------------------------------------------
(* Properties of _find_element, under FindSpec                             *)

\* C13: _find_element returns the handle found by the first strategy, in the
\* fixed order, whose selector finds an element, and queries no strategy
\* after it.
C13_FirstFindingStrategyReturns ==
    (fe_pc = "done" /\ fe_first # 0) =>
        /\ fe_result.kind = "handle"
        /\ fe_result.strategy = fe_first
        /\ fe_tried = [j \in 1..fe_first |-> j]

\* C14: _find_element raises only ElementNotFoundError, only after all
\* eleven strategies were attempted in order, whatever raised inside them,
\* and the message of the error holds the identifier.
C14_NotFoundOnlyAfterAllStrategies ==
    /\ fe_tried = [j \in 1..Len(fe_tried) |-> j]
    /\ fe_pc = "done" =>
          \/ /\ fe_result.kind = "handle"
             /\ fe_result.strategy = Len(fe_tried)
          \/ /\ fe_result.kind = "raised"
             /\ fe_result.exc.cls = "ElementNotFoundError"
             /\ Len(fe_tried) = 11
             /\ fe_result.exc.message = "Could not find element: " \o identifier
    /\ fe_pc # "done" => fe_result.kind = "pending"

\* C14 happens: a lookup raised in every one of the eleven strategies, and
\* only then the error was raised
C14_Witness ==
    /\ fe_pc = "done"
    /\ fe_result.kind = "raised"
    /\ fe_swallowed = 11
    /\ Len(fe_tried) = 11
    /\ identifier = "Sign In"

\* the time strategy j may wait: the timeout argument for text and
\* placeholder, the timeout argument and the second of the nested lookup for
\* the label, one second for each of the eight probes
OwnTimeout(j, timeout) ==
    IF j < 3 THEN timeout ELSE IF j = 3 THEN timeout + 1000 ELSE 1000

RECURSIVE SumOfTimeouts(_, _)
SumOfTimeouts(k, timeout) ==
    IF k = 0 THEN 0 ELSE SumOfTimeouts(k - 1, timeout) + OwnTimeout(k, timeout)

\* C15: the time _find_element has spent waiting never exceeds the sum of
\* the timeouts of the strategies tried so far; so when strategy k returns
\* the handle, it is at most the timeouts of strategies 1..k-1 plus that of
\* strategy k.
C15_WithinSumOfTimeouts ==
    /\ fe_elapsed <= SumOfTimeouts(Len(fe_tried), fe_timeout)
    /\ (fe_pc = "done" /\ fe_result.kind = "handle") =>
          fe_elapsed <= SumOfTimeouts(fe_result.strategy, fe_timeout)

\* C15 happens: the second probe returns the handle when every wait before
\* it, the nested lookup of the label included, ran to its timeout
C15_Witness ==
    /\ fe_pc = "done"
    /\ fe_result.kind = "handle"
    /\ fe_result.strategy = 5
    /\ fe_timeout = 30000
    /\ fe_first = 3
    /\ fe_elapsed = 30000 + 30000 + 31000 + 1000 + 1000

----------------------------------------------------------------------------
(* Properties of execute, under ExecuteSpec                                *)

C17_InitializedBeforeHandler ==
    /\ started.handler # "" => started.initialized /\ initialized
    /\ ex_pc \in {"dispatch", "handler"} => initialized
    /\ init_calls <= 1
    /\ (ex_pc = "done" /\ ~initialized) =>
          /\ init_calls = 1
          /\ started.handler = ""
          /\ ex_result.kind = "raised"
          /\ ex_result.exc.message = "Browser initialization failed"

\* C17 happens: a handler ran on a session that execute initialized
C17_Witness ==
    /\ ex_pc = "done"
    /\ init_calls = 1
    /\ started = [handler |-> "click", initialized |-> TRUE]
    /\ ex_result.kind = "returned"

\* C18: whatever the action and the keywords, execute returns a result or
\* raises a BrowserAutomationError or one of its subclasses; a call whose
\* keywords do not fit the handler, the failure that reaches execute
\* untyped, leaves as BrowserAutomationError 'Failed to execute <action>'.
C18_OnlyTaxonomyErrorsLeave ==
    ex_pc = "done" =>
        /\ ex_result.kind \in {"returned", "raised"}
        /\ ex_result.kind = "raised" => IsBrowserAutomationError(ex_result.exc.cls)
        /\ (initialized /\ ex_action \in action_map
              /\ ~binds(ex_action, ex_parameters)) =>
              /\ started.handler = ""
              /\ ex_result.kind = "raised"
              /\ ex_result.exc.cls = "BrowserAutomationError"
              /\ startswith(ex_result.exc.message, "Failed to execute " \o ex_action)

\* C18 happens: click called with an unexpected timeout keyword
C18_Witness ==
    /\ ex_pc = "done"
    /\ ex_action = "click"
    /\ ex_parameters = [text |-> PyStr("login"), timeout |-> PyInt(1000)]
    /\ ex_result = Raised(Exc("BrowserAutomationError", "Failed to execute click"))

\* C19: when a call inside a handler raises a taxonomy error into the
\* handler, the error that leaves execute has the same kind (leaving aside
\* wait_for_element, which is meant to signal a missing element as Timeout).
C19_TypedErrorsPassThrough ==
    (ex_pc = "done" /\ trace.call # "" /\ ex_action # "wait_for_element") =>
        /\ ex_result.kind = "raised"
        /\ ex_result.exc.cls = trace.call

\* C20: login with credentials fails with ElementNotFoundError when no
\* username field, or no password field, can be filled; search fails with
\* ElementNotFoundError when no search field can be filled and the generic
\* search-input selectors do not resolve.
C20_UnfilledFieldIsElementNotFound ==
    (/\ ex_pc = "done"
     /\ started.handler # ""
     /\ env.goto = "ok"
     /\ \/ /\ ex_action = "login"
           /\ PyTruthy(get(ex_parameters, "username"))
           /\ PyTruthy(get(ex_parameters, "password"))
           /\ ~env.username_filled \/ ~env.password_filled
        \/ /\ ex_action = "search"
           /\ ~env.search_filled
           /\ env.search_box # "element") =>
        /\ ex_result.kind = "raised"
        /\ ex_result.exc.cls = "ElementNotFoundError"

----------------------------------------------------------------------------
(***************************************************************************)
(* Properties of the composite handlers, the session and the boundary      *)
(***************************************************************************)

\* every step of _login, or of _search, before its return statement
\* succeeded
AllStepsSucceed ==
    /\ env.goto = "ok"
    /\ \/ /\ ex_action = "login"
          /\ (PyTruthy(get(ex_parameters, "username"))
                 /\ PyTruthy(get(ex_parameters, "password"))) =>
                (env.username_filled /\ env.password_filled /\ env.submit = "ok")
       \/ /\ ex_action = "search"
          /\ env.search_filled \/ (env.search_box = "element" /\ env.act = "ok")
          /\ env.submit = "ok"
          /\ env.settle = "ok"

\* C21: when every step of login succeeds, login returns a record with
\* whether credentials were supplied and the resulting URL; when every step
\* of search succeeds, search returns a record with the query, the website
\* and the resulting URL; neither raises.
C21_CompositeReturnsItsRecord ==
    (ex_pc = "done" /\ started.handler \in {"login", "search"} /\ AllStepsSucceed) =>
        /\ ex_result.kind = "returned"
        /\ "current_url" \in DOMAIN ex_result.value
        /\ ex_action = "login" =>
              ex_result.value.logged_in =
                 (get(ex_parameters, "username") # PyNone
                    /\ get(ex_parameters, "password") # PyNone)
        /\ ex_action = "search" =>
              /\ ex_result.value.search_query = str(ex_parameters.query)
              /\ ex_result.value.website = str(ex_parameters.website)

\* C22: when _find_element raises ElementNotFoundError inside
\* _wait_for_element, the error that leaves execute('wait_for_element', ...)
\* is a TimeoutError, never an ElementNotFoundError.
C22_MissingElementIsTimeout ==
    /\ (ex_pc = "done" /\ started.handler = "wait_for_element"
           /\ trace.call = "ElementNotFoundError") =>
          /\ ex_result.kind = "raised"
          /\ ex_result.exc.cls = "TimeoutError"
          /\ ex_result.exc.message =
                "Timed out waiting for element: " \o str(ex_parameters.element)
    /\ (ex_pc = "done" /\ ex_action = "wait_for_element"
           /\ ex_result.kind = "raised") =>
          ex_result.exc.cls # "ElementNotFoundError"

\* C22 happens: the element waited for was not found
C22_Witness ==
    /\ ex_pc = "done"
    /\ started.handler = "wait_for_element"
    /\ env.find = "ElementNotFoundError"
    /\ trace.call = "ElementNotFoundError"
    /\ ex_result.kind = "raised"
    /\ ex_result.exc.cls = "TimeoutError"

\* the direct call of `method` on the controller has come back
CallOver(method) ==
    /\ tasks[1].kind = "call"
    /\ tasks[1].call = method
    /\ tasks[1].pc = "idle"
    /\ tasks[1].result # ""

\* C23: after close returns, whatever the session held and also when the
\* close of a resource raised, self.initialized is False, every handle is
\* cleared and the browser the session held is closed.
C23_CloseReleasesEverything ==
    CallOver("close") =>
        /\ tasks[1].result = "returned"
        /\ sessions[1] = NewSession
        /\ tasks[1].entry.session.browser \notin live

\* C24: initialize called on an initialized session returns at once: it
\* acquires nothing and leaves playwright, browser, context, page and
\* initialized as they were.
C24_InitializeIdempotent ==
    (/\ tasks[1].kind = "call"
     /\ tasks[1].call = "initialize"
     /\ tasks[1].entry.session.initialized) =>
        /\ tasks[1].pc = "idle"
        /\ tasks[1].result = "returned"
        /\ sessions[1] = tasks[1].entry.session
        /\ acquisitions = tasks[1].entry.acquisitions

\* C24 happens: initialize was called on a session that a first call had
\* initialized, and returned
C24_Witness ==
    /\ CallOver("initialize")
    /\ tasks[1].calls = 2
    /\ tasks[1].entry.session.initialized
    /\ tasks[1].entry.acquisitions = Len(initialize_awaits)
    /\ sessions[1].initialized

\* C25: whatever the interleaving of startup, /interact, /reset and
\* shutdown, at most one browser is launched and not closed.
C25_AtMostOneLiveBrowser == Cardinality(live) <= 1

\* the tasks whose handler is suspended at an await on the page
OnPage == {t \in TaskIds : tasks[t].pc = "on_page"}

\* C26: at most one action at a time is in flight on the page: no handler
\* starts while another is suspended at an await on the page.
C26_OneActionOnThePage == Cardinality(OnPage) <= 1

\* C27: when an await of initialize raises, close runs, the error that
\* leaves initialize is a BrowserInitializationError and the session is not
\* initialized.
C27_FailedSetupIsInitializationError ==
    (CallOver("initialize") /\ tasks[1].result # "returned") =>
        /\ tasks[1].teardown
        /\ ~sessions[1].initialized
        /\ tasks[1].result = "BrowserInitializationError"

\* the kinds of the closed taxonomy, by the names the code gives them
TaxonomyKinds == TaxonomySubclasses \cup {"UnexpectedError"}

\* C28: the response to every failed /interact request, whether the parse,
\* the lookup of the action or the handler failed, carries an error kind of
\* the closed taxonomy, a message, structured details and recovery
\* suggestions.
C28_FailureCarriesErrorRecord ==
    (pc = "responded" /\ (response.kind = "HTTPException" \/ ~response.success)) =>
        /\ response.kind = "CommandResponse"
        /\ response.data.error_type \in TaxonomyKinds
        /\ {"message", "details", "recovery_suggestions"} \subseteq DOMAIN response.data

NavigateVerbs == {"go to ", "navigate to ", "open "}

BareDomains == {"github.com", "www.google.com", "example.xn--p1ai"}

\* C29: 'go to', 'navigate to' or 'open' followed by a bare domain parses
\* to action 'navigate' with url 'https://' followed by the domain (lower
\* case, as hosts are written); 'Go to github.com' gives
\* {url: 'https://github.com'}.
C29_BareDomainGetsHttps ==
    \A v \in NavigateVerbs, d \in BareDomains :
        (Parsed /\ normalize(command) = v \o d) =>
            /\ parsed.raised = ""
            /\ parsed.action = "navigate"
            /\ parsed.params = [url |-> PyStr("https://" \o d)]

SearchQueries == {"python automation", "Python Automation"}

SearchDomains == {"google.com"}

\* C30: 'Search for "<q>" on <domain>' parses to action 'search' with the
\* quoted text as query and the domain, with no scheme added, as website;
\* 'Search for "python automation" on google.com' gives
\* {query: 'python automation', website: 'google.com'}.
C30_SearchKeepsQueryAndWebsite ==
    \A q \in SearchQueries, d \in SearchDomains :
        (Parsed /\ command = "Search for \"" \o q \o "\" on " \o d) =>
            /\ parsed.raised = ""
            /\ parsed.action = "search"
            /\ parsed.params = [query |-> PyStr(q), website |-> PyStr(d)]

----------------------------------------------------------------------------
(***************************************************************************)
(* Further properties of _submit, under SubmitSpec                         *)
(***************************************************************************)

\* C33: _submit tries its strategies in order, the seven selectors, then
\* Enter on a form, then Enter on the keyboard; a later strategy is tried
\* only when every earlier one found nothing; and _submit returns
\* {submitted: true} only after a network-idle wait that followed the
\* gesture.
C33_StrategiesInOrder ==
    /\ \A k \in 1..Len(sub_tried) : sub_tried[k] = k
    /\ \A j \in sub_found : \A k \in 1..Len(sub_tried) : sub_tried[k] <= j
    /\ sub_result = "submitted" => (gestures # <<>> /\ settled)

\* C34: one call of _submit delivers at most one gesture, click or Enter
\* press, to the page, also when the network-idle wait after a click fails.
C34_AtMostOneGesture == Len(gestures) <= 1

----------------------------------------------------------------------------
(***************************************************************************)
(* Further properties of _find_element, under FindSpec                     *)
(***************************************************************************)

\* C32: whenever the label strategy finds its label, _find_element returns
\* a handle of the label strategy: the control the label is for, else an
\* input inside the label, else the label; when the control the label is for
\* cannot be found, the input inside and the label are still tried, and no
\* common selector is tried.
C32_LabelChainReturns ==
    (fe_pc = "done" /\ fe_label # "") =>
        /\ fe_result.kind = "handle"
        /\ fe_result.strategy = LabelStrategy
        /\ fe_result.part \in {"input_element", "input_inside", "element"}
        /\ fe_label = "return " \o fe_result.part
        /\ fe_tried = [j \in 1..LabelStrategy |-> j]

----------------------------------------------------------------------------
(***************************************************************************)
(* Properties of the entry-point loop of _login, under LoginSpec, and of   *)
(* successive calls of parse_command, under ReparseSpec                    *)
(***************************************************************************)

\* C35: _login looks the entry-point texts up in the order of the list,
\* clicks at most one element, looks no further text up once a click has
\* been performed, also when the load-settling wait after it fails, and
\* goes on to the form without error when no text resolves.
C35_AtMostOneEntryPointClick ==
    /\ lg_probed = [j \in 1..Len(lg_probed) |-> j]
    /\ Len(lg_clicks) <= 1
    /\ lg_clicks # <<>> => lg_probed[Len(lg_probed)] = lg_clicks[1]
    /\ Len(lg_probed) = Len(login_buttons) /\ lg_pc \notin {"click", "settle"}
          => lg_pc = "form"

\* C31: two calls of parse_command with the same text have the same
\* outcome, the same action with the same parameters or both raise,
\* whatever calls were made and whatever was done with the dicts returned
\* in between.
C31_ParseIsDeterministic ==
    \A i, j \in 1..Len(calls) :
        calls[i].command = calls[j].command =>
            /\ calls[i].raised = calls[j].raised
            /\ calls[i].action = calls[j].action
            /\ calls[i].params = calls[j].params
            /\ calls[i].raised = "" => calls[i].ref # calls[j].ref \/ i = j

\* C31 happens: the same text was parsed again after the dict of the first
\* call had been updated with the options of the request
C31_Witness ==
    /\ Len(calls) >= 2
    /\ calls[1].command = "submit"
    /\ calls[2].command = "submit"
    /\ calls[1].updated
    /\ heap[calls[1].ref] # EmptyDict
    /\ calls[2].params = EmptyDict


----------------------------------------------------------------------------
(***************************************************************************)
(* Further properties of the session, the CAPTCHA handler and the parser   *)
(***************************************************************************)

\* C36, under LifecycleSpec: whenever a call of initialize or close has
\* come back, with any of the awaits allowed to raise, initialized = True
\* implies that the playwright, browser, context and page handles are all
\* set, so that a handler never finds self.page missing.
C36_InitializedHoldsEveryHandle ==
    (tasks[1].kind = "call" /\ tasks[1].pc = "idle" /\ sessions[1].initialized) =>
        /\ sessions[1].playwright
        /\ sessions[1].browser # 0
        /\ sessions[1].context
        /\ sessions[1].page

\* C37, under CaptchaSpec: _manual_intervention returns True only after a
\* detect_captcha call that completed its scan of the page and found neither
\* a selector nor a text pattern; a detection that raised is never counted
\* as absence.
C37_TrueOnlyAfterCompletedScan ==
    (cap_pc = "done" /\ manual_run /\ cap_result = "True") =>
        /\ detect_calls >= 1
        /\ last_detect.via = "none"

\* C38, under ExecuteSpec: while execute runs with an action outside
\* action_map on a session that is not initialized, no step starts an engine
\* or a browser: initialized and the handles stay as they were and
\* initialize is not called.
C38_UnknownActionLeavesSession ==
    [][(ex_action \notin action_map /\ ~initialized) =>
          UNCHANGED <<initialized, resources, init_calls>>]_vars

\* the provider under whose comment a selector of CAPTCHA_SELECTORS is listed
ProviderGroup(i) ==
    CASE i \in 1..4 -> "recaptcha"
      [] i \in 5..6 -> "hcaptcha"
      [] i \in 7..9 -> "text_captcha"
      [] OTHER      -> "unknown"

\* C39, under DetectSpec: the captcha_type detect_captcha returns for a
\* selector hit is the provider group of the selector that matched:
\* 'recaptcha' for the four reCAPTCHA selectors, 'hcaptcha' for the two
\* hCaptcha selectors, 'text_captcha' for the img/input/div captcha
\* selectors.
C39_KindIsProviderGroup ==
    (det_pc = "done" /\ det_result.via = "selector") =>
        \A i \in 1..9 :
            det_result.element = PyStr(CAPTCHA_SELECTORS[i]) =>
                det_result.captcha_type = PyStr(ProviderGroup(i))

SchemedAddresses == {"http://example.com", "https://www.google.com"}

\* C40, under Spec: a navigate command whose address carries a scheme
\* parses to a url that keeps that scheme: 'navigate to http://example.com'
\* gives 'http://example.com', 'Navigate to https://www.google.com' gives
\* 'https://www.google.com'.
C40_ExplicitSchemeKept ==
    \A v \in NavigateVerbs, a \in SchemedAddresses :
        (Parsed /\ normalize(command) = v \o a) =>
            /\ parsed.raised = ""
            /\ parsed.action = "navigate"
            /\ parsed.params = [url |-> PyStr(a)]

====
